---- MODULE Spec2Model ----
(***************************************************************************)
(* Model of the repair / extraction core of Aura_Verse:                    *)
(*   modules/content_formatter.py  repair_and_format_json                  *)
(*   modules/content_parser.py     parse_file_content and its extractors   *)
(* Text is a sequence of one-character strings.                            *)
(***************************************************************************)
EXTENDS Integers, Sequences, FiniteSets, TLC

(***************************************************************************)
(* Characters and character classes (str.strip, str.isdigit, \s, \w, \d).  *)
(***************************************************************************)
QT == "\""
BSL == "\\"
NL == "\n"
SP == " "
BS == "<BS>"

Digits == {"0", "1", "2", "3", "4", "5", "6", "7", "8", "9"}
Letters == {"a", "b", "c", "d", "e", "f", "g", "h", "i", "j", "k", "l", "m",
            "n", "o", "p", "q", "r", "s", "t", "u", "v", "w", "x", "y", "z",
            "N", "I"}
WhiteSpace == {" ", "\t", "\n", "\r", "\f"}
JsonWhiteSpace == {" ", "\t", "\n", "\r"}
ControlChars == {"\t", "\n", "\r", "\f", BS}

IsSpace(c) == c \in WhiteSpace
IsDigit(c) == c \in Digits
IsAlnum(c) == c \in Digits \cup Letters
IsWord(c) == c \in Digits \cup Letters \cup {"_"}

W_true == <<"t", "r", "u", "e">>
W_false == <<"f", "a", "l", "s", "e">>
W_null == <<"n", "u", "l", "l">>
W_tru == <<"t", "r", "u">>
W_fals == <<"f", "a", "l", "s">>
W_undefined == <<"u", "n", "d", "e", "f", "i", "n", "e", "d">>
W_NaN == <<"N", "a", "N">>

(***************************************************************************)
(* String primitives of the Python runtime.                                *)
(***************************************************************************)
RECURSIVE LStripFrom(_, _)
LStripFrom(s, i) ==
    IF i > Len(s) THEN <<>>
    ELSE IF IsSpace(s[i]) THEN LStripFrom(s, i + 1)
    ELSE SubSeq(s, i, Len(s))

LStrip(s) == LStripFrom(s, 1)

RECURSIVE RStrip(_)
RStrip(s) ==
    IF s = <<>> THEN <<>>
    ELSE IF IsSpace(s[Len(s)]) THEN RStrip(SubSeq(s, 1, Len(s) - 1))
    ELSE s

Strip(s) == RStrip(LStrip(s))

StartsWithAt(s, i, w) ==
    /\ i >= 1
    /\ i + Len(w) - 1 <= Len(s)
    /\ \A k \in 1..Len(w) : s[i + k - 1] = w[k]

StartsWith(s, w) == StartsWithAt(s, 1, w)

EndsWith(s, w) == Len(w) <= Len(s) /\ StartsWithAt(s, Len(s) - Len(w) + 1, w)

Count(s, c) == Cardinality({k \in 1..Len(s) : s[k] = c})

Contains(s, c) == \E k \in 1..Len(s) : s[k] = c

\* str.find for a one-character needle: the first index, 0 when absent
Find(s, c) ==
    IF Contains(s, c)
    THEN CHOOSE k \in 1..Len(s) : s[k] = c /\ \A j \in 1..(k - 1) : s[j] # c
    ELSE 0

RECURSIVE Repeat(_, _)
Repeat(c, n) == IF n <= 0 THEN <<>> ELSE <<c>> \o Repeat(c, n - 1)

\* str.split('\n'): always at least one line
RECURSIVE SplitFrom(_, _, _, _)
SplitFrom(s, i, from, acc) ==
    IF i > Len(s) THEN Append(acc, SubSeq(s, from, Len(s)))
    ELSE IF s[i] = NL THEN SplitFrom(s, i + 1, i + 1, Append(acc, SubSeq(s, from, i - 1)))
    ELSE SplitFrom(s, i + 1, from, acc)

SplitLines(s) == SplitFrom(s, 1, 1, <<>>)

RECURSIVE JoinLines(_)
JoinLines(ls) ==
    IF ls = <<>> THEN <<>>
    ELSE IF Len(ls) = 1 THEN ls[1]
    ELSE ls[1] \o <<NL>> \o JoinLines(Tail(ls))

\* index after the maximal run of \s characters starting at i
RECURSIVE SkipSpace(_, _)
SkipSpace(s, i) ==
    IF i <= Len(s) /\ IsSpace(s[i]) THEN SkipSpace(s, i + 1) ELSE i

RECURSIVE SkipDigits(_, _)
SkipDigits(s, i) ==
    IF i <= Len(s) /\ IsDigit(s[i]) THEN SkipDigits(s, i + 1) ELSE i

(***************************************************************************)
(* json.loads / json.dumps of the standard library.                        *)
(* A value is a record: t in {"str","int","lit","arr","obj"}; s holds the  *)
(* characters of a string, the digits of an integer or the spelling of a   *)
(* literal; keys/items hold the members of a container in insertion order. *)
(* A result is ok, err (JSONDecodeError) or rec (RecursionError).          *)
(***************************************************************************)
\* nesting depth at which the decoder raises RecursionError; stands for the
\* interpreter's recursion limit (1000 frames), scaled to the model's inputs
RecursionLimit == 3

Val(t, s, keys, items) == [t |-> t, s |-> s, keys |-> keys, items |-> items]
NoVal == Val("none", <<>>, <<>>, <<>>)
Res(st, v, n) == [st |-> st, v |-> v, n |-> n]
DecodeError(i) == Res("err", NoVal, i)

RECURSIVE SkipWs(_, _)
SkipWs(s, i) ==
    IF i <= Len(s) /\ s[i] \in JsonWhiteSpace THEN SkipWs(s, i + 1) ELSE i

Unescape(c) ==
    CASE c = "n" -> "\n"
      [] c = "t" -> "\t"
      [] c = "r" -> "\r"
      [] c = "f" -> "\f"
      [] c = "b" -> BS
      [] OTHER -> c

\* py_scanstring, strict: i is the index after the opening quote
RECURSIVE ScanString(_, _, _)
ScanString(s, i, acc) ==
    IF i > Len(s) THEN DecodeError(i)
    ELSE IF s[i] = QT THEN Res("ok", Val("str", acc, <<>>, <<>>), i + 1)
    ELSE IF s[i] = BSL THEN
        IF i + 1 <= Len(s) /\ s[i + 1] \in {QT, BSL, "/", "b", "f", "n", "r", "t"}
        THEN ScanString(s, i + 2, Append(acc, Unescape(s[i + 1])))
        ELSE DecodeError(i)
    ELSE IF s[i] \in ControlChars THEN DecodeError(i)
    ELSE ScanString(s, i + 1, Append(acc, s[i]))

\* dict(pairs): a repeated key keeps its first position and takes the last value
PutKey(keys, items, k, v) ==
    IF \E j \in 1..Len(keys) : keys[j] = k
    THEN LET j == CHOOSE j \in 1..Len(keys) : keys[j] = k
         IN  <<keys, [items EXCEPT ![j] = v]>>
    ELSE <<Append(keys, k), Append(items, v)>>

RECURSIVE ParseValue(_, _, _)
RECURSIVE ParseArrayRest(_, _, _, _)
RECURSIVE ParseObjectRest(_, _, _, _, _)

\* scan_once
ParseValue(s, i, depth) ==
    IF i > Len(s) THEN DecodeError(i)
    ELSE IF s[i] = QT THEN ScanString(s, i + 1, <<>>)
    ELSE IF s[i] = "{" THEN
        IF depth >= RecursionLimit THEN Res("rec", NoVal, i)
        ELSE LET j == SkipWs(s, i + 1)
             IN  IF j > Len(s) THEN DecodeError(j)
                 ELSE IF s[j] = "}" THEN Res("ok", Val("obj", <<>>, <<>>, <<>>), j + 1)
                 ELSE IF s[j] # QT THEN DecodeError(j)
                 ELSE ParseObjectRest(s, j, depth + 1, <<>>, <<>>)
    ELSE IF s[i] = "[" THEN
        IF depth >= RecursionLimit THEN Res("rec", NoVal, i)
        ELSE LET j == SkipWs(s, i + 1)
             IN  IF j > Len(s) THEN DecodeError(j)
                 ELSE IF s[j] = "]" THEN Res("ok", Val("arr", <<>>, <<>>, <<>>), j + 1)
                 ELSE ParseArrayRest(s, j, depth + 1, <<>>)
    ELSE IF StartsWithAt(s, i, W_null) THEN Res("ok", Val("lit", W_null, <<>>, <<>>), i + 4)
    ELSE IF StartsWithAt(s, i, W_true) THEN Res("ok", Val("lit", W_true, <<>>, <<>>), i + 4)
    ELSE IF StartsWithAt(s, i, W_false) THEN Res("ok", Val("lit", W_false, <<>>, <<>>), i + 5)
    ELSE IF IsDigit(s[i]) THEN
        \* NUMBER_RE, integer part (0|[1-9]\d*)
        LET j == IF s[i] = "0" THEN i + 1 ELSE SkipDigits(s, i)
        IN  Res("ok", Val("int", SubSeq(s, i, j - 1), <<>>, <<>>), j)
    ELSE IF StartsWithAt(s, i, W_NaN) THEN Res("ok", Val("lit", W_NaN, <<>>, <<>>), i + 3)
    ELSE DecodeError(i)

\* JSONArray after '[' and whitespace: i is the start of the next element
ParseArrayRest(s, i, depth, items) ==
    LET v == ParseValue(s, i, depth)
    IN  IF v.st # "ok" THEN v
        ELSE LET e == SkipWs(s, v.n)
                 got == Append(items, v.v)
             IN  IF e > Len(s) THEN DecodeError(e)
                 ELSE IF s[e] = "]" THEN Res("ok", Val("arr", <<>>, <<>>, got), e + 1)
                 ELSE IF s[e] = "," THEN ParseArrayRest(s, SkipWs(s, e + 1), depth, got)
                 ELSE DecodeError(e)

\* JSONObject: s[j] is the quote that opens the next key
ParseObjectRest(s, j, depth, keys, items) ==
    LET k == ScanString(s, j + 1, <<>>)
    IN  IF k.st # "ok" THEN k
        ELSE LET c == SkipWs(s, k.n)
             IN  IF c > Len(s) \/ s[c] # ":" THEN DecodeError(c)
                 ELSE LET v == ParseValue(s, SkipWs(s, c + 1), depth)
                      IN  IF v.st # "ok" THEN v
                          ELSE LET e == SkipWs(s, v.n)
                                   got == PutKey(keys, items, k.v.s, v.v)
                               IN  IF e > Len(s) THEN DecodeError(e)
                                   ELSE IF s[e] = "}"
                                   THEN Res("ok", Val("obj", <<>>, got[1], got[2]), e + 1)
                                   ELSE IF s[e] = ","
                                   THEN LET q == SkipWs(s, e + 1)
                                        IN  IF q <= Len(s) /\ s[q] = QT
                                            THEN ParseObjectRest(s, q, depth, got[1], got[2])
                                            ELSE DecodeError(q)
                                   ELSE DecodeError(e)

\* JSONDecoder.decode: leading whitespace, one value, trailing whitespace
JsonLoads(s) ==
    LET v == ParseValue(s, SkipWs(s, 1), 0)
    IN  IF v.st # "ok" THEN Res(v.st, NoVal, v.n)
        ELSE IF SkipWs(s, v.n) <= Len(s) THEN DecodeError(v.n)
        ELSE v

\* a serializer that forgets to escape the backslash
RECURSIVE EscapeCharsKeepBackslash(_)
EscapeCharsKeepBackslash(s) ==
    IF s = <<>> THEN <<>>
    ELSE (IF Head(s) = QT THEN <<BSL, QT>> ELSE <<Head(s)>>)
         \o EscapeCharsKeepBackslash(Tail(s))

\* encode_basestring (ensure_ascii=False)
RECURSIVE EscapeChars(_)
EscapeChars(s) ==
    IF s = <<>> THEN <<>>
    ELSE LET c == Head(s)
             e == CASE c = QT -> <<BSL, QT>>
                    [] c = BSL -> <<BSL, BSL>>
                    [] c = "\n" -> <<BSL, "n">>
                    [] c = "\r" -> <<BSL, "r">>
                    [] c = "\t" -> <<BSL, "t">>
                    [] c = "\f" -> <<BSL, "f">>
                    [] c = BS -> <<BSL, "b">>
                    [] OTHER -> <<c>>
         IN  e \o EscapeChars(Tail(s))

Quoted(s) == <<QT>> \o EscapeChars(s) \o <<QT>>

\* _make_iterencode with indent=2: item separator ",", key separator ": "
RECURSIVE Dumps(_, _)
RECURSIVE DumpMembers(_, _, _)
DumpMembers(v, k, lvl) ==
    IF k > Len(v.items) THEN <<>>
    ELSE (IF k > 1 THEN <<",">> ELSE <<>>)
         \o <<NL>> \o Repeat(SP, 2 * lvl)
         \o (IF v.t = "obj" THEN Quoted(v.keys[k]) \o <<":", SP>> ELSE <<>>)
         \o Dumps(v.items[k], lvl)
         \o DumpMembers(v, k + 1, lvl)

Dumps(v, lvl) ==
    IF v.t = "str" THEN Quoted(v.s)
    ELSE IF v.t = "arr" THEN
        IF v.items = <<>> THEN <<"[", "]">>
        ELSE <<"[">> \o DumpMembers(v, 1, lvl + 1) \o <<NL>> \o Repeat(SP, 2 * lvl) \o <<"]">>
    ELSE IF v.t = "obj" THEN
        IF v.items = <<>> THEN <<"{", "}">>
        ELSE <<"{">> \o DumpMembers(v, 1, lvl + 1) \o <<NL>> \o Repeat(SP, 2 * lvl) \o <<"}">>
    ELSE v.s

JsonDumps(v) == Dumps(v, 0)

(***************************************************************************)
(* repair_and_format_json, step 2: lexical fixes (lines 356-373).          *)
(***************************************************************************)
BOM == "<BOM>"

StripBom(s) == IF StartsWith(s, <<BOM>>) THEN Tail(s) ELSE s

\* re.sub(r'\bWORD\b', repl, s)
RECURSIVE ReplaceWordFrom(_, _, _, _)
ReplaceWordFrom(s, i, w, repl) ==
    IF i > Len(s) THEN <<>>
    ELSE IF /\ StartsWithAt(s, i, w)
            /\ (i = 1 \/ ~IsWord(s[i - 1]))
            /\ (i + Len(w) > Len(s) \/ ~IsWord(s[i + Len(w)]))
    THEN repl \o ReplaceWordFrom(s, i + Len(w), w, repl)
    ELSE <<s[i]>> \o ReplaceWordFrom(s, i + 1, w, repl)

ReplaceWord(s, w, repl) == ReplaceWordFrom(s, 1, w, repl)

FixTypos(s) ==
    ReplaceWord(ReplaceWord(ReplaceWord(ReplaceWord(s, W_tru, W_true),
                                        W_fals, W_false),
                            W_undefined, W_null),
                W_NaN, W_null)

\* first index >= i holding a newline, Len(s)+1 when there is none
RECURSIVE LineEnd(_, _)
LineEnd(s, i) == IF i <= Len(s) /\ s[i] # NL THEN LineEnd(s, i + 1) ELSE i

\* re.sub(r'//.*?$', '', s, flags=re.MULTILINE)
RECURSIVE RemoveLineCommentsFrom(_, _)
RemoveLineCommentsFrom(s, i) ==
    IF i > Len(s) THEN <<>>
    ELSE IF StartsWithAt(s, i, <<"/", "/">>)
    THEN RemoveLineCommentsFrom(s, LineEnd(s, i + 2))
    ELSE <<s[i]>> \o RemoveLineCommentsFrom(s, i + 1)

RemoveLineComments(s) == RemoveLineCommentsFrom(s, 1)

\* first index >= i where "*/" starts, 0 when there is none
RECURSIVE BlockEnd(_, _)
BlockEnd(s, i) ==
    IF i + 1 > Len(s) THEN 0
    ELSE IF s[i] = "*" /\ s[i + 1] = "/" THEN i
    ELSE BlockEnd(s, i + 1)

\* re.sub(r'/\*.*?\*/', '', s, flags=re.DOTALL)
RECURSIVE RemoveBlockCommentsFrom(_, _)
RemoveBlockCommentsFrom(s, i) ==
    IF i > Len(s) THEN <<>>
    ELSE IF StartsWithAt(s, i, <<"/", "*">>) /\ BlockEnd(s, i + 2) # 0
    THEN RemoveBlockCommentsFrom(s, BlockEnd(s, i + 2) + 2)
    ELSE <<s[i]>> \o RemoveBlockCommentsFrom(s, i + 1)

RemoveBlockComments(s) == RemoveBlockCommentsFrom(s, 1)

RECURSIVE SkipWord(_, _)
SkipWord(s, i) == IF i <= Len(s) /\ IsWord(s[i]) THEN SkipWord(s, i + 1) ELSE i

\* re.sub(r"'(\w+)'\s*:", r'"\1":', s)
RECURSIVE FixSingleQuotedKeysFrom(_, _)
FixSingleQuotedKeysFrom(s, i) ==
    IF i > Len(s) THEN <<>>
    ELSE LET j == SkipWord(s, i + 1)
             k == SkipSpace(s, j + 1)
         IN  IF /\ s[i] = "'"
                /\ j > i + 1
                /\ j <= Len(s) /\ s[j] = "'"
                /\ k <= Len(s) /\ s[k] = ":"
             THEN <<QT>> \o SubSeq(s, i + 1, j - 1) \o <<QT, ":">>
                  \o FixSingleQuotedKeysFrom(s, k + 1)
             ELSE <<s[i]>> \o FixSingleQuotedKeysFrom(s, i + 1)

FixSingleQuotedKeys(s) == FixSingleQuotedKeysFrom(s, 1)

\* index after the maximal run of [^',}\]] starting at i
RECURSIVE SkipValueChars(_, _)
SkipValueChars(s, i) ==
    IF i <= Len(s) /\ s[i] \notin {"'", ",", "}", "]"}
    THEN SkipValueChars(s, i + 1) ELSE i

\* re.sub(r":\s*'([^',}\]]*)'\s*([,}\]])", r': "\1"\2', s)
RECURSIVE FixSingleQuotedValuesFrom(_, _)
FixSingleQuotedValuesFrom(s, i) ==
    IF i > Len(s) THEN <<>>
    ELSE LET j == SkipSpace(s, i + 1)
             k == SkipValueChars(s, j + 1)
             m == SkipSpace(s, k + 1)
         IN  IF /\ s[i] = ":"
                /\ j <= Len(s) /\ s[j] = "'"
                /\ k <= Len(s) /\ s[k] = "'"
                /\ m <= Len(s) /\ s[m] \in {",", "}", "]"}
             THEN <<":", SP, QT>> \o SubSeq(s, j + 1, k - 1) \o <<QT, s[m]>>
                  \o FixSingleQuotedValuesFrom(s, m + 1)
             ELSE <<s[i]>> \o FixSingleQuotedValuesFrom(s, i + 1)

FixSingleQuotedValues(s) == FixSingleQuotedValuesFrom(s, 1)

LexicalFixes(s) ==
    FixSingleQuotedValues(FixSingleQuotedKeys(
        RemoveBlockComments(RemoveLineComments(FixTypos(StripBom(Strip(s)))))))

(***************************************************************************)
(* Step 4: regex comma healing (lines 471-489).                            *)
(***************************************************************************)
\* end (exclusive) of the left group matched at i, 0 when it does not match:
\*   "quote"    (")                    "value"    (null|true|false|\d+)
\*   "rbrace"   (\})                   "rbracket" (\])
\*   "kvstring" (":\s*"[^"]*")
RECURSIVE NextQuote(_, _)
NextQuote(s, i) == IF i <= Len(s) /\ s[i] # QT THEN NextQuote(s, i + 1) ELSE i

MatchLeft(kind, s, i) ==
    CASE kind = "quote" -> IF s[i] = QT THEN i + 1 ELSE 0
      [] kind = "rbrace" -> IF s[i] = "}" THEN i + 1 ELSE 0
      [] kind = "rbracket" -> IF s[i] = "]" THEN i + 1 ELSE 0
      [] kind = "value" ->
            IF StartsWithAt(s, i, W_null) THEN i + 4
            ELSE IF StartsWithAt(s, i, W_true) THEN i + 4
            ELSE IF StartsWithAt(s, i, W_false) THEN i + 5
            ELSE IF IsDigit(s[i]) THEN SkipDigits(s, i)
            ELSE 0
      [] kind = "kvstring" ->
            LET j == SkipSpace(s, i + 2)
                k == NextQuote(s, j + 1)
            IN  IF /\ StartsWithAt(s, i, <<QT, ":">>)
                   /\ j <= Len(s) /\ s[j] = QT
                   /\ k <= Len(s)
                THEN k + 1 ELSE 0

\* re.sub(r'(LEFT)\s*\n\s*(b)', r'\1,\n  \2', s)
RECURSIVE HealNewlineFrom(_, _, _, _)
HealNewlineFrom(s, i, kind, b) ==
    IF i > Len(s) THEN <<>>
    ELSE LET e == MatchLeft(kind, s, i)
             f == SkipSpace(s, e)
         IN  IF /\ e # 0
                /\ f <= Len(s) /\ s[f] = b
                /\ \E k \in e..(f - 1) : s[k] = NL
             THEN SubSeq(s, i, e - 1) \o <<",", NL, SP, SP, b>>
                  \o HealNewlineFrom(s, f + 1, kind, b)
             ELSE <<s[i]>> \o HealNewlineFrom(s, i + 1, kind, b)

HealNewline(s, kind, b) == HealNewlineFrom(s, 1, kind, b)

\* re.sub(r'(LEFT)\s+(b)', r'\1, \2', s)
RECURSIVE HealSpaceFrom(_, _, _, _)
HealSpaceFrom(s, i, kind, b) ==
    IF i > Len(s) THEN <<>>
    ELSE LET e == MatchLeft(kind, s, i)
             f == SkipSpace(s, e)
         IN  IF /\ e # 0
                /\ f > e
                /\ f <= Len(s) /\ s[f] = b
             THEN SubSeq(s, i, e - 1) \o <<",", SP, b>>
                  \o HealSpaceFrom(s, f + 1, kind, b)
             ELSE <<s[i]>> \o HealSpaceFrom(s, i + 1, kind, b)

HealSpace(s, kind, b) == HealSpaceFrom(s, 1, kind, b)

RegexHeal(s) ==
    LET s1 == HealNewline(s, "quote", QT)
        s2 == HealSpace(s1, "quote", QT)
        s3 == HealSpace(s2, "kvstring", QT)
        s4 == HealNewline(s3, "value", QT)
        s5 == HealSpace(s4, "value", QT)
        s6 == HealNewline(s5, "rbrace", QT)
        s7 == HealNewline(s6, "rbracket", QT)
        s8 == HealNewline(s7, "quote", "{")
    IN  HealNewline(s8, "quote", "[")

(***************************************************************************)
(* Step 4b: line-by-line healing (lines 491-552).                          *)
(***************************************************************************)
IsCommaLine(t) == t \in {<<",">>, <<",", ",">>}

\* next_stripped.startswith('"') and ':' in next_stripped
IsKeyLine(t) == StartsWith(t, <<QT>>) /\ Contains(t, ":")

RECURSIVE LineHealFrom(_, _, _, _, _)
LineHealFrom(lines, n, repaired_lines, array_depth, brace_depth) ==
    IF n > Len(lines) THEN repaired_lines
    ELSE LET line == lines[n]
             stripped == Strip(line)
             bd == brace_depth + Count(stripped, "{") - Count(stripped, "}")
             ad == array_depth + Count(stripped, "[") - Count(stripped, "]")
             in_array == ad > 0
             hasNext == n + 1 <= Len(lines)
             next1 == Strip(lines[n + 1])
         IN  IF IsCommaLine(stripped)
             THEN IF hasNext /\ IsKeyLine(next1) /\ in_array
                  THEN LineHealFrom(lines, n + 1, Append(repaired_lines, <<"]", ",">>), 0, bd)
                  ELSE LineHealFrom(lines, n + 1, repaired_lines, ad, bd)
             ELSE LET check == hasNext /\ (next1 = <<",">> => n + 2 <= Len(lines))
                      next_stripped == IF next1 = <<",">> THEN Strip(lines[n + 2]) ELSE next1
                      quotedItem == /\ StartsWith(stripped, <<QT>>)
                                    /\ EndsWith(stripped, <<QT>>)
                                    /\ ~Contains(stripped, ":")
                      case1 == check /\ in_array /\ quotedItem /\ IsKeyLine(next_stripped)
                      case2 == /\ check /\ ~case1
                               /\ EndsWith(stripped, <<QT>>) /\ Contains(stripped, ":")
                               /\ ~EndsWith(stripped, <<QT, ",">>)
                               /\ IsKeyLine(next_stripped)
                      case3 == /\ check /\ ~case1 /\ ~case2
                               /\ ~in_array /\ quotedItem /\ IsKeyLine(next_stripped)
                      kept == IF case1 THEN RStrip(line) \o <<"]", ",">>
                              ELSE IF case2 \/ case3 THEN RStrip(line) \o <<",">>
                              ELSE line
                  IN  LineHealFrom(lines, n + 1, Append(repaired_lines, kept),
                                   IF case1 THEN 0 ELSE ad, bd)

LineHeal(s) == JoinLines(LineHealFrom(SplitLines(s), 1, <<>>, 0, 0))

(***************************************************************************)
(* Steps 5-7: cleanup and bracket balancing (lines 554-574).               *)
(***************************************************************************)
\* re.sub(r',(\s*[}\]])', r'\1', s)
RECURSIVE RemoveTrailingCommasFrom(_, _)
RemoveTrailingCommasFrom(s, i) ==
    IF i > Len(s) THEN <<>>
    ELSE LET f == SkipSpace(s, i + 1)
         IN  IF s[i] = "," /\ f <= Len(s) /\ s[f] \in {"}", "]"}
             THEN SubSeq(s, i + 1, f) \o RemoveTrailingCommasFrom(s, f + 1)
             ELSE <<s[i]>> \o RemoveTrailingCommasFrom(s, i + 1)

RemoveTrailingCommas(s) == RemoveTrailingCommasFrom(s, 1)

RECURSIVE KeepLines(_)
KeepLines(ls) ==
    IF ls = <<>> THEN <<>>
    ELSE IF IsCommaLine(Strip(Head(ls))) THEN KeepLines(Tail(ls))
    ELSE <<Head(ls)>> \o KeepLines(Tail(ls))

DropCommaLines(s) == JoinLines(KeepLines(SplitLines(s)))

Cleanup(s) == DropCommaLines(RemoveTrailingCommas(s))

\* content.rstrip() + '\n' + closer * (opened - closed), when opened > closed
AppendClosers(s, closer, missing) ==
    IF missing > 0 THEN RStrip(s) \o <<NL>> \o Repeat(closer, missing) ELSE s

\* a balancer that only counts braces
BalanceBracesOnly(s) == AppendClosers(s, "}", Count(s, "{") - Count(s, "}"))

BalanceBrackets(s) ==
    LET open_braces == Count(s, "{")
        close_braces == Count(s, "}")
        open_brackets == Count(s, "[")
        close_brackets == Count(s, "]")
    IN  AppendClosers(AppendClosers(s, "}", open_braces - close_braces),
                      "]", open_brackets - close_brackets)

(***************************************************************************)
(* Step 8, except branch: degraded recovery (lines 581-603).               *)
(***************************************************************************)
\* content.find('{'), else content.find('['); 0 when neither occurs
StartIdx(s) == IF Find(s, "{") # 0 THEN Find(s, "{") ELSE Find(s, "[")

\* partial + '\n' + closer * diff, when diff > 0
PartialClosers(s, closer, diff) ==
    IF diff > 0 THEN s \o <<NL>> \o Repeat(closer, diff) ELSE s

Partial(s) ==
    LET partial == SubSeq(s, StartIdx(s), Len(s))
        brace_diff == Count(partial, "{") - Count(partial, "}")
        bracket_diff == Count(partial, "[") - Count(partial, "]")
    IN  PartialClosers(PartialClosers(partial, "}", brace_diff), "]", bracket_diff)

(***************************************************************************)
(* Step 3: one iteration of the character scan (lines 384-462) on the scan *)
(* state st = [result, i, in_string, escape_next, stack, last_was_value].  *)
(***************************************************************************)
\* last_was_value and result and result[-1] not in [',', ':', '[', '{']
NeedsCommaBeforeOpener(st) ==
    /\ st.last_was_value
    /\ st.result # <<>>
    /\ st.result[Len(st.result)] \notin {",", ":", "[", "{"}

\* the comma test of the regular-character branch (lines 447-451)
NeedsCommaBeforeChar(content, st) ==
    LET char == content[st.i]
        ahead == Strip(SubSeq(content, st.i, IF st.i + 9 <= Len(content)
                                             THEN st.i + 9 ELSE Len(content)))
    IN  /\ st.last_was_value
        /\ char \notin {",", "}", "]", " ", "\t", "\n", "\r"}
        /\ st.result # <<>>
        /\ st.result[Len(st.result)] \notin {",", ":", "[", "{", " ", "\n"}
        /\ \/ char = QT
           \/ /\ IsAlnum(char)
              /\ st.i + 1 <= Len(content)
              /\ StartsWith(ahead, <<QT>>)

\* lines 455-460: the character starts a number or a true/false/null keyword
CompletesValue(content, st) ==
    LET char == content[st.i]
        remaining == Strip(SubSeq(content, st.i, Len(content)))
    IN  /\ IsDigit(char) \/ char \in {"t", "f", "n"}
        /\ \/ StartsWith(remaining, W_true)
           \/ StartsWith(remaining, W_false)
           \/ StartsWith(remaining, W_null)
           \/ IsDigit(remaining[1])

Pop(stack) == SubSeq(stack, 1, Len(stack) - 1)

\* a test that accepts any opener on top of the stack
TopIsAny(stack, c) == stack # <<>>

TopIs(stack, c) == stack # <<>> /\ stack[Len(stack)] = c

ScanChar(content, st) ==
    LET char == content[st.i]
        step == [st EXCEPT !.i = st.i + 1]
        emit == [step EXCEPT !.result = Append(st.result, char)]
    IN  IF st.escape_next THEN [emit EXCEPT !.escape_next = FALSE]
        ELSE IF char = BSL THEN [emit EXCEPT !.escape_next = TRUE]
        ELSE IF char = QT THEN
            [emit EXCEPT !.in_string = ~st.in_string,
                         !.last_was_value = IF st.in_string THEN TRUE
                                            ELSE st.last_was_value]
        ELSE IF st.in_string THEN emit
        ELSE IF char \in {"{", "["} THEN
            [step EXCEPT !.result = (IF NeedsCommaBeforeOpener(st)
                                     THEN Append(st.result, ",") ELSE st.result)
                                    \o <<char>>,
                         !.stack = Append(st.stack, char),
                         !.last_was_value = FALSE]
        ELSE IF char = "}" THEN
            [emit EXCEPT !.stack = IF TopIs(st.stack, "{") THEN Pop(st.stack) ELSE st.stack,
                         !.last_was_value = FALSE]
        ELSE IF char = "]" THEN
            [emit EXCEPT !.stack = IF TopIs(st.stack, "[") THEN Pop(st.stack) ELSE st.stack,
                         !.last_was_value = FALSE]
        ELSE IF char \in {",", ":"} THEN [emit EXCEPT !.last_was_value = FALSE]
        ELSE IF char \in {" ", "\t", "\n", "\r"} THEN emit
        ELSE [step EXCEPT !.result = (IF NeedsCommaBeforeChar(content, st)
                                      THEN Append(st.result, ",") ELSE st.result)
                                     \o <<char>>,
                          !.last_was_value = IF CompletesValue(content, st) THEN TRUE
                                             ELSE st.last_was_value]

\* lines 464-469: close what is still open, innermost first
RECURSIVE MissingClosers(_)
MissingClosers(stack) ==
    IF stack = <<>> THEN <<>>
    ELSE <<IF stack[Len(stack)] = "{" THEN "}" ELSE "]">> \o MissingClosers(Pop(stack))

ScanStart == [result |-> <<>>, i |-> 1, in_string |-> FALSE, escape_next |-> FALSE,
              stack |-> <<>>, last_was_value |-> FALSE]

(***************************************************************************)
(* Documents handed to repair_and_format_json.  Every input comes with the *)
(* reference document it was derived from (itself when it has no defect).  *)
(***************************************************************************)
MaxLen == 3
MaxMembers == 2
MaxNest == 4

FreeAlphabet == {"{", "}", "[", "]", QT, ",", ":", "1", SP, NL}
KeyNames == <<"a", "b", "c", "d">>

Q(s) == <<QT>> \o s \o <<QT>>

Values == {<<"1">>, Q(<<"a">>), W_true, <<"[", "1", "]">>, <<"{", "}">>, Q(<<"[">>)}
Separators == {<<",">>, <<SP>>, <<NL>>}

Doc(text, ref, kind) == [text |-> text, ref |-> ref, kind |-> kind]

RECURSIVE SeqsUpTo(_, _)
SeqsUpTo(S, n) ==
    IF n = 0 THEN {<<>>}
    ELSE LET shorter == SeqsUpTo(S, n - 1)
         IN  shorter \cup {Append(t, c) : t \in {u \in shorter : Len(u) = n - 1}, c \in S}

RECURSIVE RenderMembers(_, _, _, _)
RenderMembers(vals, seps, k, keyed) ==
    IF k > Len(vals) THEN <<>>
    ELSE (IF keyed THEN Q(<<KeyNames[k]>>) \o <<":">> ELSE <<>>)
         \o vals[k]
         \o (IF k < Len(vals) THEN seps[k] ELSE <<>>)
         \o RenderMembers(vals, seps, k + 1, keyed)

RenderObject(vals, seps) == <<"{">> \o RenderMembers(vals, seps, 1, TRUE) \o <<"}">>
RenderArray(vals, seps) == <<"[">> \o RenderMembers(vals, seps, 1, FALSE) \o <<"]">>

Commas(n) == [k \in 1..(n - 1) |-> <<",">>]

\* objects whose members are separated by a comma, a space or a newline
ObjectDocs ==
    {Doc(RenderObject(vals, seps), RenderObject(vals, Commas(Len(vals))),
         IF seps = Commas(Len(vals)) THEN "valid" ELSE "nocomma") :
        <<vals, seps>> \in UNION {[1..n -> Values] \X [1..(n - 1) -> Separators] :
                                   n \in 0..MaxMembers}}

ArrayDocs ==
    {Doc(RenderArray(vals, Commas(Len(vals))), RenderArray(vals, Commas(Len(vals))), "valid") :
        vals \in UNION {[1..n -> Values] : n \in 0..MaxMembers}}

RECURSIVE Nested(_)
Nested(n) == IF n = 0 THEN <<"1">> ELSE <<"[">> \o Nested(n - 1) \o <<"]">>

NestedDocs == {Doc(Nested(n), Nested(n), "valid") : n \in 1..MaxNest}

\* documents with escapes, repeated keys, padding and deeper nesting
ExtraValidTexts ==
    { Q(<<BSL, QT>>), Q(<<BSL, BSL>>), Q(<<BSL, "/">>), Q(<<BSL, "n">>), Q(<<"{">>),
      <<"{">> \o Q(<<"a">>) \o <<":", "1", ",">> \o Q(<<"a">>) \o <<":", "2", "}">>,
      <<SP, "[", "1", ",", SP, "2", "]", NL>>,
      <<"{">> \o Q(<<"a">>) \o <<":", "{">> \o Q(<<"b">>) \o <<":", "[", "1", ",", "2", ",", "3", "]", "}", "}">>,
      <<"{">> \o Q(<<"a">>) \o <<":", "[", "1", ",", "2", ",", "3", "]", "}">>,
      <<"{">> \o Q(<<"a">>) \o <<":">> \o Q(<<"x", "]">>) \o <<"}">>,
      <<"1", "2">>, W_null, W_false }

ExtraValidDocs == {Doc(t, t, "valid") : t \in ExtraValidTexts}

ValidDocs == {d \in ObjectDocs : d.kind = "valid"} \cup ArrayDocs \cup NestedDocs
             \cup ExtraValidDocs

\* number of '}' / ']' characters that end the text
RECURSIVE TrailingClosers(_)
TrailingClosers(s) ==
    IF s # <<>> /\ s[Len(s)] \in {"}", "]"}
    THEN 1 + TrailingClosers(SubSeq(s, 1, Len(s) - 1)) ELSE 0

\* a valid document from which a suffix of closers was removed
TruncatedDocs ==
    UNION {{Doc(SubSeq(d.text, 1, Len(d.text) - k), d.text, "truncated") :
              k \in 1..TrailingClosers(d.text)} : d \in ValidDocs}

\* documents with lexical defects: typos, comments, single quotes, BOM,
\* stray commas
LexicalTexts ==
    { <<"[">> \o W_tru \o <<"]">>,
      <<"{">> \o Q(<<"a">>) \o <<":">> \o W_fals \o <<"}">>,
      <<"[">> \o W_undefined \o <<"]">>,
      <<"[">> \o W_NaN,
      <<"[">> \o W_NaN \o <<"]">>,
      <<"[", "1", "]", SP, "/", "/", "c">>,
      <<"[", "1", SP, "/", "*", "c", "*", "/", "]">>,
      <<"{", "'", "a", "'", ":", "1", "}">>,
      <<"{">> \o Q(<<"a">>) \o <<":", "'", "x", "'", "}">>,
      <<"[">> \o Q(<<"/", "/">>),
      <<"[">> \o Q(<<"/", "/">>) \o <<",", "1">>,
      <<"{">> \o Q(<<"a">>) \o <<":">> \o Q(W_tru) \o <<SP>> \o Q(<<"b">>) \o <<":", "1", "}">>,
      <<"{">> \o Q(<<"a">>) \o <<":">> \o Q(<<"1", SP>>) \o <<SP>> \o Q(<<"b">>) \o <<":", "2", "}">>,
      <<BOM, "[", "1">>,
      <<"[", "1", ",", "]">>,
      <<"[", "1", NL, ",", NL, "2", "]">>,
      <<"{">> \o Q(<<"a">>) \o <<":", "[", NL>> \o Q(<<"x">>) \o <<NL>> \o Q(<<"b">>) \o <<":", "1", "}">>,
      <<"{">> \o Q(<<"a">>) \o <<":", "[", NL>> \o Q(<<"x">>) \o <<NL, ",", NL>> \o Q(<<"b">>) \o <<":", "1", "}">>,
      <<"1", SP, "{", "}">>,
      <<"x", "[", "[", "[", "[", "1">>,
      <<"[", "1", SP, "[", "[", "[", "1", "]", "]", "]", "]">> }

LexicalDocs == {Doc(t, t, "lexical") : t \in LexicalTexts}

\* texts with a backslash inside and outside string literals
EscapeTexts ==
    { <<BSL, "[">>,
      <<"[", BSL, "[", "}">>,
      <<BSL, QT, "[">>,
      <<"[">> \o Q(<<BSL, QT, "{">>),
      <<"[">> \o Q(<<"a", BSL, BSL>>) \o <<"{">>,
      <<"[", BSL, "]">> }

EscapeDocs == {Doc(t, t, "escape") : t \in EscapeTexts}

FreeDocs == {Doc(t, t, "free") : t \in SeqsUpTo(FreeAlphabet, MaxLen)}

JsonInputs == FreeDocs \cup ObjectDocs \cup ArrayDocs \cup NestedDocs \cup ExtraValidDocs
              \cup TruncatedDocs \cup LexicalDocs \cup EscapeDocs

(***************************************************************************)
(* content_parser.py.  Python values: a dict is an "obj" value, a list an  *)
(* "arr" value, None the literal null, a str or an int a "str" / "int"     *)
(* value; a record of the result sequence is any such value.               *)
(***************************************************************************)
UpperCase == <<"A", "B", "C", "D", "E", "F", "G", "H", "I", "J", "K", "L", "M",
               "N", "O", "P", "Q", "R", "S", "T", "U", "V", "W", "X", "Y", "Z">>
LowerCase == <<"a", "b", "c", "d", "e", "f", "g", "h", "i", "j", "k", "l", "m",
               "n", "o", "p", "q", "r", "s", "t", "u", "v", "w", "x", "y", "z">>

IsLetter(c) == \E k \in 1..26 : c = UpperCase[k] \/ c = LowerCase[k]

\* str.lower
ToLower(s) ==
    [k \in 1..Len(s) |->
        IF \E n \in 1..26 : UpperCase[n] = s[k]
        THEN LowerCase[CHOOSE n \in 1..26 : UpperCase[n] = s[k]]
        ELSE s[k]]

\* the in operator on strings
ContainsText(s, w) == \E k \in 1..Len(s) : StartsWithAt(s, k, w)

\* index of the first c at or after p, Len(s) + 1 when there is none
RECURSIVE IndexFrom(_, _, _)
IndexFrom(s, p, c) ==
    IF p > Len(s) \/ s[p] = c THEN p ELSE IndexFrom(s, p + 1, c)

\* index after the run of characters outside stops that starts at p
RECURSIVE SkipUntil(_, _, _)
SkipUntil(s, p, stops) ==
    IF p <= Len(s) /\ s[p] \notin stops THEN SkipUntil(s, p + 1, stops) ELSE p

\* str.lstrip(c)
RECURSIVE LStripChar(_, _)
LStripChar(s, c) ==
    IF s # <<>> /\ Head(s) = c THEN LStripChar(Tail(s), c) ELSE s

RECURSIVE ConcatAll(_)
ConcatAll(seqs) ==
    IF seqs = <<>> THEN <<>> ELSE Head(seqs) \o ConcatAll(Tail(seqs))

Chars(w) ==
    CASE w = "type" -> <<"t", "y", "p", "e">>
      [] w = "heading" -> <<"h", "e", "a", "d", "i", "n", "g">>
      [] w = "level" -> <<"l", "e", "v", "e", "l">>
      [] w = "text" -> <<"t", "e", "x", "t">>
      [] w = "paragraph" -> <<"p", "a", "r", "a", "g", "r", "a", "p", "h">>
      [] w = "link" -> <<"l", "i", "n", "k">>
      [] w = "url" -> <<"u", "r", "l">>
      [] w = "image" -> <<"i", "m", "a", "g", "e">>
      [] w = "src" -> <<"s", "r", "c">>
      [] w = "alt" -> <<"a", "l", "t">>
      [] w = "table_row" -> <<"t", "a", "b", "l", "e", "_", "r", "o", "w">>
      [] w = "table_index" -> <<"t", "a", "b", "l", "e", "_", "i", "n", "d", "e", "x">>
      [] w = "column_" -> <<"c", "o", "l", "u", "m", "n", "_">>
      [] w = "list_item" -> <<"l", "i", "s", "t", "_", "i", "t", "e", "m">>
      [] w = "list_index" -> <<"l", "i", "s", "t", "_", "i", "n", "d", "e", "x">>
      [] w = "metadata" -> <<"m", "e", "t", "a", "d", "a", "t", "a">>
      [] w = "title" -> <<"t", "i", "t", "l", "e">>
      [] w = "code_block" -> <<"c", "o", "d", "e", "_", "b", "l", "o", "c", "k">>
      [] w = "language" -> <<"l", "a", "n", "g", "u", "a", "g", "e">>
      [] w = "content" -> <<"c", "o", "n", "t", "e", "n", "t">>
      [] w = "key" -> <<"k", "e", "y">>
      [] w = "value" -> <<"v", "a", "l", "u", "e">>
      [] w = "key_value" -> <<"k", "e", "y", "_", "v", "a", "l", "u", "e">>
      [] w = "json_object" -> <<"j", "s", "o", "n", "_", "o", "b", "j", "e", "c", "t">>
      [] w = "text_line" -> <<"t", "e", "x", "t", "_", "l", "i", "n", "e">>
      [] w = "line_number" -> <<"l", "i", "n", "e", "_", "n", "u", "m", "b", "e", "r">>
      [] w = "pdf_content" -> <<"p", "d", "f", "_", "c", "o", "n", "t", "e", "n", "t">>
      [] w = "note" -> <<"n", "o", "t", "e">>
      [] w = "href" -> <<"h", "r", "e", "f">>
      [] w = "name" -> <<"n", "a", "m", "e">>
      [] w = "table" -> <<"t", "a", "b", "l", "e">>
      [] w = "tr" -> <<"t", "r">>
      [] w = "td" -> <<"t", "d">>
      [] w = "th" -> <<"t", "h">>
      [] w = "a" -> <<"a">>
      [] w = "img" -> <<"i", "m", "g">>
      [] w = "ul" -> <<"u", "l">>
      [] w = "ol" -> <<"o", "l">>
      [] w = "li" -> <<"l", "i">>
      [] w = "p" -> <<"p">>
      [] w = "meta" -> <<"m", "e", "t", "a">>
      [] w = ".html" -> <<".", "h", "t", "m", "l">>
      [] w = ".htm" -> <<".", "h", "t", "m">>
      [] w = ".md" -> <<".", "m", "d">>
      [] w = ".markdown" -> <<".", "m", "a", "r", "k", "d", "o", "w", "n">>
      [] w = ".csv" -> <<".", "c", "s", "v">>
      [] w = ".json" -> <<".", "j", "s", "o", "n">>
      [] w = ".pdf" -> <<".", "p", "d", "f">>
      [] w = "<html" -> <<"<", "h", "t", "m", "l">>
      [] w = "<body" -> <<"<", "b", "o", "d", "y">>
      [] w = "<div" -> <<"<", "d", "i", "v">>
      [] w = "fence" -> <<"<BT>", "<BT>", "<BT>">>
      [] w = "](" -> <<"]", "(">>
      [] w = "br" -> <<"b", "r">>
      [] w = "hr" -> <<"h", "r">>
      [] w = "input" -> <<"i", "n", "p", "u", "t">>
      [] w = "area" -> <<"a", "r", "e", "a">>
      [] w = "base" -> <<"b", "a", "s", "e">>
      [] w = "col" -> <<"c", "o", "l">>
      [] w = "embed" -> <<"e", "m", "b", "e", "d">>
      [] w = "source" -> <<"s", "o", "u", "r", "c", "e">>
      [] w = "track" -> <<"t", "r", "a", "c", "k">>
      [] w = "wbr" -> <<"w", "b", "r">>
      [] w = "script" -> <<"s", "c", "r", "i", "p", "t">>
      [] w = "style" -> <<"s", "t", "y", "l", "e">>
      [] w = "textarea" -> <<"t", "e", "x", "t", "a", "r", "e", "a">>
      [] w = "div" -> <<"d", "i", "v">>
      [] w = "h1" -> <<"h", "1">>
      [] w = "h2" -> <<"h", "2">>
      [] w = "h3" -> <<"h", "3">>
      [] w = "h4" -> <<"h", "4">>
      [] w = "h5" -> <<"h", "5">>
      [] w = "h6" -> <<"h", "6">>
      [] w = "form" -> <<"f", "o", "r", "m">>
      [] w = "fieldset" -> <<"f", "i", "e", "l", "d", "s", "e", "t">>
      [] w = "pre" -> <<"p", "r", "e">>
      [] w = "blockquote" -> <<"b", "l", "o", "c", "k", "q", "u", "o", "t", "e">>
      [] w = "code" -> <<"c", "o", "d", "e">>
      [] w = "span" -> <<"s", "p", "a", "n">>
      [] w = "b" -> <<"b">>
      [] w = ".xml" -> <<".", "x", "m", "l">>
      [] w = ".txt" -> <<".", "t", "x", "t">>
      [] w = ".text" -> <<".", "t", "e", "x", "t">>
      [] w = "<?xml" -> <<"<", "?", "x", "m", "l">>
      [] w = "html" -> <<"h", "t", "m", "l">>
      [] w = "body" -> <<"b", "o", "d", "y">>
      [] w = "keygen" -> <<"k", "e", "y", "g", "e", "n">>
      [] w = "menuitem" -> <<"m", "e", "n", "u", "i", "t", "e", "m">>
      [] w = "param" -> <<"p", "a", "r", "a", "m">>
      [] w = "basefont" -> <<"b", "a", "s", "e", "f", "o", "n", "t">>
      [] w = "bgsound" -> <<"b", "g", "s", "o", "u", "n", "d">>
      [] w = "command" -> <<"c", "o", "m", "m", "a", "n", "d">>
      [] w = "frame" -> <<"f", "r", "a", "m", "e">>
      [] w = "image" -> <<"i", "m", "a", "g", "e">>
      [] w = "isindex" -> <<"i", "s", "i", "n", "d", "e", "x">>
      [] w = "nextid" -> <<"n", "e", "x", "t", "i", "d">>
      [] w = "spacer" -> <<"s", "p", "a", "c", "e", "r">>
      [] w = "doctype" -> <<"d", "o", "c", "t", "y", "p", "e">>
      [] w = "--" -> <<"-", "-">>
      [] w = "temp" -> <<"t", "e", "m", "p">>
      [] w = "cdata" -> <<"c", "d", "a", "t", "a">>
      [] w = "ignore" -> <<"i", "g", "n", "o", "r", "e">>
      [] w = "include" -> <<"i", "n", "c", "l", "u", "d", "e">>
      [] w = "rcdata" -> <<"r", "c", "d", "a", "t", "a">>
      [] w = "if" -> <<"i", "f">>
      [] w = "else" -> <<"e", "l", "s", "e">>
      [] w = "endif" -> <<"e", "n", "d", "i", "f">>
      [] w = "PDF parsing requires additional libraries. Content treated as text." ->
            <<"P", "D", "F", " ", "p", "a", "r", "s", "i", "n", "g", " ",
              "r", "e", "q", "u", "i", "r", "e", "s", " ", "a", "d", "d",
              "i", "t", "i", "o", "n", "a", "l", " ", "l", "i", "b", "r",
              "a", "r", "i", "e", "s", ".", " ", "C", "o", "n", "t", "e",
              "n", "t", " ", "t", "r", "e", "a", "t", "e", "d", " ", "a",
              "s", " ", "t", "e", "x", "t", ".">>

StrVal(s) == Val("str", s, <<>>, <<>>)

DigitChars == <<"0", "1", "2", "3", "4", "5", "6", "7", "8", "9">>

\* str(n) for n >= 0
RECURSIVE IntChars(_)
IntChars(n) ==
    IF n < 10 THEN <<DigitChars[n + 1]>>
    ELSE IntChars(n \div 10) \o <<DigitChars[(n % 10) + 1]>>

IntVal(n) == Val("int", IntChars(n), <<>>, <<>>)
NoneVal == Val("lit", W_null, <<>>, <<>>)
ListVal(items) == Val("arr", <<>>, <<>>, items)

\* the key None of a dict
NoneKey == <<"<None>">>

EmptyDict == Val("obj", <<>>, <<>>, <<>>)

\* d[k] = v
DictPut(d, k, v) ==
    LET got == PutKey(d.keys, d.items, k, v)
    IN  Val("obj", <<>>, got[1], got[2])

\* {**d, **e}
RECURSIVE DictUpdateFrom(_, _, _)
DictUpdateFrom(d, e, k) ==
    IF k > Len(e.keys) THEN d
    ELSE DictUpdateFrom(DictPut(d, e.keys[k], e.items[k]), e, k + 1)

DictUpdate(d, e) == DictUpdateFrom(d, e, 1)

HasKey(d, k) == \E j \in 1..Len(d.keys) : d.keys[j] = k

\* d.get(k, default)
DictGet(d, k, default) ==
    IF HasKey(d, k) THEN d.items[CHOOSE j \in 1..Len(d.keys) : d.keys[j] = k]
    ELSE default

\* truth value of a str or None
Truthy(v) == v.t = "str" /\ v.s # <<>>

\* {"type": type}
TypedRecord(type) == DictPut(EmptyDict, Chars("type"), StrVal(Chars(type)))

(***************************************************************************)
(* HTMLParser.feed: the events of a text whose start tags carry distinct   *)
(* name="value" attributes, without character references and without      *)
(* script or style elements.  A tag, comment or declaration without its    *)
(* end is held back, as feed does without close().                         *)
(***************************************************************************)
Event(e, tag, attrs, data) == [e |-> e, tag |-> tag, attrs |-> attrs, data |-> data]

AttrsResult(complete, attrs, n, startend) ==
    [complete |-> complete, attrs |-> attrs, n |-> n, startend |-> startend]

\* the attributes of a start tag from index p on, collected as dict(attrs)
RECURSIVE ParseAttrs(_, _, _)
ParseAttrs(s, p, attrs) ==
    LET q == SkipSpace(s, p)
    IN  IF q > Len(s) THEN AttrsResult(FALSE, attrs, q, FALSE)
        ELSE IF s[q] = ">" THEN AttrsResult(TRUE, attrs, q + 1, FALSE)
        ELSE IF s[q] = "/" THEN
            IF q + 1 <= Len(s) /\ s[q + 1] = ">"
            THEN AttrsResult(TRUE, attrs, q + 2, TRUE)
            ELSE ParseAttrs(s, q + 1, attrs)
        ELSE LET e == SkipUntil(s, q, WhiteSpace \cup {"=", ">", "/"})
                 name == ToLower(SubSeq(s, q, e - 1))
             IN  IF e <= Len(s) /\ s[e] = "=" THEN
                     IF e + 1 <= Len(s) /\ s[e + 1] = QT THEN
                         LET c == IndexFrom(s, e + 2, QT)
                         IN  IF c > Len(s) THEN AttrsResult(FALSE, attrs, c, FALSE)
                             ELSE ParseAttrs(s, c + 1,
                                      DictPut(attrs, name, StrVal(SubSeq(s, e + 2, c - 1))))
                     ELSE LET c == SkipUntil(s, e + 1, WhiteSpace \cup {">"})
                          IN  ParseAttrs(s, c,
                                  DictPut(attrs, name, StrVal(SubSeq(s, e + 1, c - 1))))
                 ELSE ParseAttrs(s, e, DictPut(attrs, name, NoneVal))

\* the index after the first > from p on; 0 when there is none
TagClose(s, p) == IF IndexFrom(s, p, ">") > Len(s) THEN 0 ELSE IndexFrom(s, p, ">") + 1

\* the index after the first match of ]\s*> (single) or ]\s*]\s*> from p on;
\* 0 when there is none
RECURSIVE SectionClose(_, _, _)
SectionClose(s, p, single) ==
    IF p > Len(s) THEN 0
    ELSE LET a == SkipSpace(s, p + 1)
             b == IF single THEN a
                  ELSE IF a <= Len(s) /\ s[a] = "]" THEN SkipSpace(s, a + 1)
                  ELSE Len(s) + 1
         IN  IF s[p] = "]" /\ b <= Len(s) /\ s[b] = ">" THEN b + 1
             ELSE SectionClose(s, p + 1, single)

\* the index after the first match of --\s*> from p on; 0 when there is none
RECURSIVE CommentClose(_, _)
CommentClose(s, p) ==
    IF p + 1 > Len(s) THEN 0
    ELSE LET a == SkipSpace(s, p + 2)
         IN  IF s[p] = "-" /\ s[p + 1] = "-" /\ a <= Len(s) /\ s[a] = ">" THEN a + 1
             ELSE CommentClose(s, p + 1)

\* the index after the run of [-_.a-zA-Z0-9] that starts at p
RECURSIVE SkipName(_, _)
SkipName(s, p) ==
    IF p <= Len(s) /\ (IsLetter(s[p]) \/ IsDigit(s[p]) \/ s[p] \in {"-", "_", "."})
    THEN SkipName(s, p + 1) ELSE p

\* parse_marked_section at the <![ of index p: the index after the section,
\* 0 when the text ends inside it, -1 for the AssertionError of a missing or
\* unknown section keyword
parse_marked_section(s, p) ==
    LET e == SkipName(s, p + 3)
        j == SkipSpace(s, e)
        sectName == ToLower(SubSeq(s, p + 3, e - 1))
    IN  IF p + 3 > Len(s) THEN 0
        ELSE IF ~IsLetter(s[p + 3]) THEN -1
        ELSE IF j > Len(s) THEN 0
        ELSE IF sectName \in {Chars("temp"), Chars("cdata"), Chars("ignore"),
                              Chars("include"), Chars("rcdata")}
        THEN SectionClose(s, p + 3, FALSE)
        ELSE IF sectName \in {Chars("if"), Chars("else"), Chars("endif")}
        THEN SectionClose(s, p + 3, TRUE)
        ELSE -1

\* parse_comment / parse_html_declaration at the <! of index p: a comment, a
\* marked section, a doctype or a bogus comment; their handlers do nothing
\* and they are no events here
parse_html_declaration(s, p) ==
    IF StartsWithAt(s, p + 2, Chars("--")) THEN CommentClose(s, p + 4)
    ELSE IF p + 2 <= Len(s) /\ s[p + 2] = "[" THEN parse_marked_section(s, p)
    ELSE IF StartsWithAt(ToLower(s), p + 2, Chars("doctype")) THEN TagClose(s, p + 9)
    ELSE TagClose(s, p + 2)

\* goahead
RECURSIVE HtmlEvents(_, _, _)
HtmlEvents(s, p, acc) ==
    IF p > Len(s) THEN acc
    ELSE LET j == IndexFrom(s, p, "<")
         IN  IF j > p
             THEN HtmlEvents(s, j, Append(acc, Event("data", <<>>, EmptyDict, SubSeq(s, p, j - 1))))
             ELSE IF p + 1 <= Len(s) /\ s[p + 1] = "/" THEN
                 LET g == IndexFrom(s, p + 2, ">")
                     name == ToLower(Strip(SubSeq(s, p + 2, g - 1)))
                 IN  IF g > Len(s) THEN acc
                     ELSE HtmlEvents(s, g + 1, Append(acc, Event("end", name, EmptyDict, <<>>)))
             ELSE IF p + 1 <= Len(s) /\ IsLetter(s[p + 1]) THEN
                 LET e == SkipUntil(s, p + 1, WhiteSpace \cup {"/", ">"})
                     tag == ToLower(SubSeq(s, p + 1, e - 1))
                     a == ParseAttrs(s, e, EmptyDict)
                 IN  IF ~a.complete THEN acc
                     ELSE HtmlEvents(s, a.n,
                              Append(acc, Event(IF a.startend THEN "startend" ELSE "start",
                                                tag, a.attrs, <<>>)))
             ELSE IF p + 1 <= Len(s) /\ s[p + 1] \in {"!", "?"} THEN
                 LET k == IF s[p + 1] = "?" THEN TagClose(s, p + 2)
                          ELSE parse_html_declaration(s, p)
                 IN  IF k = 0 THEN acc
                     ELSE IF k < 0 THEN Append(acc, Event("raise", <<>>, EmptyDict, <<>>))
                     ELSE IF s[p + 1] = "?"
                     THEN HtmlEvents(s, k, Append(acc, Event("pi", <<>>, EmptyDict,
                                                             SubSeq(s, p + 2, k - 2))))
                     ELSE HtmlEvents(s, k, acc)
             ELSE IF p + 1 <= Len(s)
             THEN HtmlEvents(s, p + 1, Append(acc, Event("data", <<>>, EmptyDict, <<"<">>)))
             ELSE acc

(***************************************************************************)
(* HTMLDataExtractor (lines 15-116).  The flags in_heading and             *)
(* in_list_item are written and never read; they are left out.             *)
(***************************************************************************)
HTMLDataExtractor ==
    [headings |-> <<>>, paragraphs |-> <<>>, links |-> <<>>, images |-> <<>>,
     tables |-> <<>>, lists |-> <<>>, metadata |-> EmptyDict,
     current_tag |-> NoneKey, current_attrs |-> EmptyDict,
     in_table |-> FALSE, current_table |-> <<>>, current_row |-> <<>>,
     in_list |-> FALSE, current_list |-> <<>>]

IsHeadingTag(tag) ==
    Len(tag) = 2 /\ tag[1] = "h" /\ tag[2] \in {"1", "2", "3", "4", "5", "6"}

handle_starttag(h, tag, attrs) ==
    LET h1 == [h EXCEPT !.current_tag = tag, !.current_attrs = attrs]
    IN  IF IsHeadingTag(tag) THEN h1
        ELSE IF tag = Chars("table")
        THEN [h1 EXCEPT !.in_table = TRUE, !.current_table = <<>>]
        ELSE IF tag = Chars("tr") THEN [h1 EXCEPT !.current_row = <<>>]
        ELSE IF tag = Chars("a") THEN
            LET href == DictGet(attrs, Chars("href"), StrVal(<<>>))
            IN  IF Truthy(href)
                THEN [h1 EXCEPT !.links = Append(@, [url |-> href, text |-> StrVal(<<>>)])]
                ELSE h1
        ELSE IF tag = Chars("img")
        THEN [h1 EXCEPT !.images =
                 Append(@, [src |-> DictGet(attrs, Chars("src"), StrVal(<<>>)),
                            alt |-> DictGet(attrs, Chars("alt"), StrVal(<<>>))])]
        ELSE IF tag \in {Chars("ul"), Chars("ol")}
        THEN [h1 EXCEPT !.in_list = TRUE, !.current_list = <<>>]
        ELSE h1

handle_endtag(h, tag) ==
    IF IsHeadingTag(tag) THEN h
    ELSE IF tag \in {Chars("td"), Chars("th")} THEN h
    ELSE IF tag = Chars("tr") THEN
        IF h.current_row # <<>>
        THEN [h EXCEPT !.current_table = Append(@, h.current_row), !.current_row = <<>>]
        ELSE h
    ELSE IF tag = Chars("table") THEN
        [h EXCEPT !.tables = IF h.current_table # <<>> THEN Append(@, h.current_table) ELSE @,
                  !.in_table = FALSE, !.current_table = <<>>]
    ELSE IF tag = Chars("li") THEN h
    ELSE IF tag \in {Chars("ul"), Chars("ol")} THEN
        [h EXCEPT !.lists = IF h.current_list # <<>> THEN Append(@, h.current_list) ELSE @,
                  !.in_list = FALSE, !.current_list = <<>>]
    ELSE h

handle_data(h, data) ==
    LET text == Strip(data)
        tag == h.current_tag
    IN  IF text = <<>> THEN h
        ELSE IF IsHeadingTag(tag)
        THEN [h EXCEPT !.headings = Append(@, [level |-> Val("int", <<tag[2]>>, <<>>, <<>>),
                                               text |-> StrVal(text)])]
        ELSE IF tag = Chars("p") THEN [h EXCEPT !.paragraphs = Append(@, StrVal(text))]
        ELSE IF tag \in {Chars("td"), Chars("th")}
        THEN [h EXCEPT !.current_row = Append(@, text)]
        ELSE IF tag = Chars("li") THEN [h EXCEPT !.current_list = Append(@, text)]
        ELSE IF tag = Chars("a") THEN
            IF h.links # <<>>
            THEN [h EXCEPT !.links[Len(h.links)].text = StrVal(text)]
            ELSE h
        ELSE IF tag = Chars("title")
        THEN [h EXCEPT !.metadata = DictPut(@, Chars("title"), StrVal(text))]
        ELSE IF tag = Chars("meta") THEN
            LET name == DictGet(h.current_attrs, Chars("name"), StrVal(<<>>))
                content == DictGet(h.current_attrs, Chars("content"), StrVal(<<>>))
            IN  IF Truthy(name)
                THEN [h EXCEPT !.metadata = DictPut(@, name.s, content)]
                ELSE h
        ELSE h

\* feed: the handlers applied to the events in order; handle_startendtag
\* calls handle_starttag and handle_endtag, handle_pi does nothing
RECURSIVE Feed(_, _)
Feed(h, events) ==
    IF events = <<>> THEN h
    ELSE LET ev == Head(events)
             h1 == CASE ev.e = "start" -> handle_starttag(h, ev.tag, ev.attrs)
                     [] ev.e = "startend" ->
                          handle_endtag(handle_starttag(h, ev.tag, ev.attrs), ev.tag)
                     [] ev.e = "end" -> handle_endtag(h, ev.tag)
                     [] ev.e \in {"raise", "pi"} -> h
                     [] OTHER -> handle_data(h, ev.data)
         IN  Feed(h1, Tail(events))

(***************************************************************************)
(* parse_html (lines 119-217).                                             *)
(***************************************************************************)
safe_value(val) == IF val = NoneVal THEN StrVal(<<>>) ELSE val

\* lines 188-191: i counts the cells from 0
RECURSIVE row_dict(_, _, _, _)
row_dict(headers, row, i, acc) ==
    IF i >= Len(row) THEN acc
    ELSE LET header == IF i < Len(headers) THEN headers[i + 1]
                       ELSE Chars("column_") \o IntChars(i)
         IN  row_dict(headers, row, i + 1, DictPut(acc, header, safe_value(StrVal(row[i + 1]))))

\* lines 183-196: the records of table number idx
TableRecords(idx, table) ==
    [r \in 1..(Len(table) - 1) |->
        DictUpdate(DictPut(TypedRecord("table_row"), Chars("table_index"), IntVal(idx)),
                   row_dict(table[1], table[r + 1], 0, EmptyDict))]

\* lines 199-205
ListRecords(idx, list_items) ==
    [r \in 1..Len(list_items) |->
        DictPut(DictPut(TypedRecord("list_item"), Chars("list_index"), IntVal(idx)),
                Chars("text"), safe_value(StrVal(list_items[r])))]

\* lines 208-215
RECURSIVE metadata_dict(_, _, _)
metadata_dict(metadata, k, acc) ==
    IF k > Len(metadata.keys) THEN acc
    ELSE metadata_dict(metadata, k + 1,
                       DictPut(acc, metadata.keys[k], safe_value(metadata.items[k])))

HtmlResults(h) ==
    [k \in 1..Len(h.headings) |->
        DictPut(DictPut(TypedRecord("heading"), Chars("level"), h.headings[k].level),
                Chars("text"), safe_value(h.headings[k].text))]
    \o [k \in 1..Len(h.paragraphs) |->
        DictPut(TypedRecord("paragraph"), Chars("text"), safe_value(h.paragraphs[k]))]
    \o [k \in 1..Len(h.links) |->
        DictPut(DictPut(TypedRecord("link"), Chars("url"), safe_value(h.links[k].url)),
                Chars("text"), safe_value(h.links[k].text))]
    \o [k \in 1..Len(h.images) |->
        DictPut(DictPut(TypedRecord("image"), Chars("src"), safe_value(h.images[k].src)),
                Chars("alt"), safe_value(h.images[k].alt))]
    \o ConcatAll([k \in 1..Len(h.tables) |-> TableRecords(k - 1, h.tables[k])])
    \o ConcatAll([k \in 1..Len(h.lists) |-> ListRecords(k - 1, h.lists[k])])
    \o (IF h.metadata.keys # <<>>
        THEN <<DictUpdate(TypedRecord("metadata"), metadata_dict(h.metadata, 1, EmptyDict))>>
        ELSE <<>>)

parse_html(s) == HtmlResults(Feed(HTMLDataExtractor, HtmlEvents(s, 1, <<>>)))

(***************************************************************************)
(* parse_markdown (lines 220-280).                                         *)
(***************************************************************************)
LinkMatch(found, group1, group2) == [found |-> found, group1 |-> group1, group2 |-> group2]

\* re.search(r'\[([^\]]+)\]\(([^\)]+)\)', line) from index p on
RECURSIVE SearchLink(_, _)
SearchLink(line, p) ==
    LET a == IndexFrom(line, p, "[")
        b == IndexFrom(line, a + 1, "]")
        c == IndexFrom(line, b + 2, ")")
    IN  IF a > Len(line) THEN LinkMatch(FALSE, <<>>, <<>>)
        ELSE IF /\ b <= Len(line) /\ b > a + 1
                /\ b + 1 <= Len(line) /\ line[b + 1] = "("
                /\ c <= Len(line) /\ c > b + 2
        THEN LinkMatch(TRUE, SubSeq(line, a + 1, b - 1), SubSeq(line, b + 2, c - 1))
        ELSE SearchLink(line, a + 1)

MarkdownStart ==
    [results |-> <<>>, current_section |-> NoneKey, current_code_block |-> <<>>,
     in_code_block |-> FALSE]

\* lines 229-278: one iteration of the loop over the lines
MarkdownLine(m, line) ==
    LET line_stripped == Strip(line)
    IN  IF StartsWith(line_stripped, <<"#">>) THEN
            [m EXCEPT !.results = Append(@,
                DictPut(DictPut(TypedRecord("heading"), Chars("level"),
                                IntVal(Len(line) - Len(LStripChar(line, "#")))),
                        Chars("text"), StrVal(Strip(LStripChar(line_stripped, "#")))))]
        ELSE IF StartsWith(line_stripped, Chars("fence")) THEN
            IF m.in_code_block
            THEN [m EXCEPT !.results = Append(@,
                      DictPut(DictPut(TypedRecord("code_block"), Chars("language"),
                                      StrVal(IF m.current_section = NoneKey
                                             THEN Chars("text") ELSE m.current_section)),
                              Chars("content"), StrVal(JoinLines(m.current_code_block)))),
                            !.current_code_block = <<>>,
                            !.in_code_block = FALSE,
                            !.current_section = NoneKey]
            ELSE [m EXCEPT !.in_code_block = TRUE,
                           !.current_section =
                               IF Strip(SubSeq(line_stripped, 4, Len(line_stripped))) = <<>>
                               THEN Chars("text")
                               ELSE Strip(SubSeq(line_stripped, 4, Len(line_stripped)))]
        ELSE IF m.in_code_block
        THEN [m EXCEPT !.current_code_block = Append(@, line)]
        ELSE IF StartsWith(line_stripped, <<"-">>) \/ StartsWith(line_stripped, <<"*">>)
        THEN [m EXCEPT !.results = Append(@,
                 DictPut(TypedRecord("list_item"), Chars("text"),
                         StrVal(Strip(SubSeq(line_stripped, 2, Len(line_stripped))))))]
        ELSE IF Contains(line, "[") /\ ContainsText(line, Chars("]("))
        THEN LET match == SearchLink(line, 1)
             IN  IF match.found
                 THEN [m EXCEPT !.results = Append(@,
                          DictPut(DictPut(TypedRecord("link"), Chars("text"),
                                          StrVal(match.group1)),
                                  Chars("url"), StrVal(match.group2)))]
                 ELSE m
        ELSE IF line_stripped # <<>>
        THEN [m EXCEPT !.results = Append(@,
                 DictPut(TypedRecord("paragraph"), Chars("text"), StrVal(line_stripped)))]
        ELSE m

RECURSIVE MarkdownLines(_, _)
MarkdownLines(m, lines) ==
    IF lines = <<>> THEN m ELSE MarkdownLines(MarkdownLine(m, Head(lines)), Tail(lines))

parse_markdown(s) == MarkdownLines(MarkdownStart, SplitLines(s)).results

(***************************************************************************)
(* parse_csv_content (lines 283-309): csv.DictReader over io.StringIO,     *)
(* default dialect.  The texts contain no carriage return and no NUL, so   *)
(* the reader raises no csv.Error and the two fallbacks are not entered.   *)
(***************************************************************************)
CsvStart == [rows |-> <<>>, fields |-> <<>>, field |-> <<>>, state |-> "START_RECORD"]

save_field(r) == [r EXCEPT !.fields = Append(@, r.field), !.field = <<>>]

\* parse_process_char of the reader for one character of a line
process_char(r, c) ==
    CASE r.state \in {"START_RECORD", "START_FIELD"} ->
            IF c = NL
            THEN IF r.state = "START_RECORD" THEN [r EXCEPT !.state = "EAT_CRNL"]
                 ELSE [save_field(r) EXCEPT !.state = "EAT_CRNL"]
            ELSE IF c = QT THEN [r EXCEPT !.state = "IN_QUOTED_FIELD"]
            ELSE IF c = "," THEN [save_field(r) EXCEPT !.state = "START_FIELD"]
            ELSE [r EXCEPT !.field = Append(@, c), !.state = "IN_FIELD"]
      [] r.state = "IN_FIELD" ->
            IF c = NL THEN [save_field(r) EXCEPT !.state = "EAT_CRNL"]
            ELSE IF c = "," THEN [save_field(r) EXCEPT !.state = "START_FIELD"]
            ELSE [r EXCEPT !.field = Append(@, c)]
      [] r.state = "IN_QUOTED_FIELD" ->
            IF c = QT THEN [r EXCEPT !.state = "QUOTE_IN_QUOTED_FIELD"]
            ELSE [r EXCEPT !.field = Append(@, c)]
      [] r.state = "QUOTE_IN_QUOTED_FIELD" ->
            IF c = QT THEN [r EXCEPT !.field = Append(@, c), !.state = "IN_QUOTED_FIELD"]
            ELSE IF c = "," THEN [save_field(r) EXCEPT !.state = "START_FIELD"]
            ELSE IF c = NL THEN [save_field(r) EXCEPT !.state = "EAT_CRNL"]
            ELSE [r EXCEPT !.field = Append(@, c), !.state = "IN_FIELD"]
      [] OTHER -> r

\* parse_process_char for the end of a line
end_of_line(r) ==
    CASE r.state \in {"START_FIELD", "IN_FIELD", "QUOTE_IN_QUOTED_FIELD"} ->
            [save_field(r) EXCEPT !.state = "START_RECORD"]
      [] r.state = "EAT_CRNL" -> [r EXCEPT !.state = "START_RECORD"]
      [] OTHER -> r

\* Reader_iternext over the lines of the text: a record is complete when a
\* line ends in the state START_RECORD; at the end of the text an open
\* quoted field closes the last record
RECURSIVE CsvRead(_, _, _)
CsvRead(s, p, r) ==
    IF p > Len(s)
    THEN IF r.state = "IN_QUOTED_FIELD" THEN Append(r.rows, Append(r.fields, r.field))
         ELSE r.rows
    ELSE LET c == process_char(r, s[p])
             e == IF s[p] = NL \/ p = Len(s) THEN end_of_line(c) ELSE c
         IN  IF e.state = "START_RECORD"
             THEN CsvRead(s, p + 1, [e EXCEPT !.rows = Append(@, e.fields), !.fields = <<>>])
             ELSE CsvRead(s, p + 1, e)

\* DictReader.__next__, lines 'd = dict(zip(self.fieldnames, row))' on
RECURSIVE ZipDict(_, _, _, _)
ZipDict(fieldnames, row, k, acc) ==
    IF k > Len(fieldnames) \/ k > Len(row) THEN acc
    ELSE ZipDict(fieldnames, row, k + 1, DictPut(acc, fieldnames[k], StrVal(row[k])))

RECURSIVE RestVal(_, _, _)
RestVal(fieldnames, k, acc) ==
    IF k > Len(fieldnames) THEN acc
    ELSE RestVal(fieldnames, k + 1, DictPut(acc, fieldnames[k], NoneVal))

DictRow(fieldnames, row) ==
    LET d == ZipDict(fieldnames, row, 1, EmptyDict)
    IN  IF Len(fieldnames) < Len(row)
        THEN DictPut(d, NoneKey,
                     ListVal([k \in 1..(Len(row) - Len(fieldnames)) |->
                                 StrVal(row[Len(fieldnames) + k])]))
        ELSE RestVal(fieldnames, Len(row) + 1, d)

RECURSIVE DictRows(_, _, _)
DictRows(fieldnames, rows, k) ==
    IF k > Len(rows) THEN <<>>
    ELSE (IF rows[k] = <<>> THEN <<>> ELSE <<DictRow(fieldnames, rows[k])>>)
         \o DictRows(fieldnames, rows, k + 1)

parse_csv_content(s) ==
    LET rows == CsvRead(s, 1, CsvStart)
    IN  IF rows = <<>> THEN <<>> ELSE DictRows(rows[1], rows, 2)

(***************************************************************************)
(* parse_key_value (lines 312-332).                                        *)
(***************************************************************************)
\* the first index in q..r whose character is not a newline, 0 when none:
\* where [^\n]+ starts after \s* has given back as little as it must
RECURSIVE ValueStart(_, _, _)
ValueStart(s, q, r) ==
    IF r < q THEN 0
    ELSE IF r <= Len(s) /\ s[r] # NL THEN r
    ELSE ValueStart(s, q, r - 1)

\* re.findall(r'([^:=\n]+)<sep>\s*([^\n]+)', s) from index p on
RECURSIVE FindPairs(_, _, _)
FindPairs(s, p, sep) ==
    IF p > Len(s) THEN <<>>
    ELSE LET q == SkipUntil(s, p, {":", "=", NL})
             w == SkipSpace(s, q + 1)
             v == ValueStart(s, q + 1, w)
             e == IndexFrom(s, v, NL)
         IN  IF q > p /\ q <= Len(s) /\ s[q] = sep /\ v > 0
             THEN <<[key |-> SubSeq(s, p, q - 1), value |-> SubSeq(s, v, e - 1)]>>
                  \o FindPairs(s, e, sep)
             ELSE FindPairs(s, p + 1, sep)

KeyValueRecords(pairs) ==
    LET kept == SelectSeq(pairs, LAMBDA m : Strip(m.key) # <<>> /\ Strip(m.value) # <<>>)
    IN  [k \in 1..Len(kept) |->
            DictPut(DictPut(EmptyDict, Chars("key"), StrVal(Strip(kept[k].key))),
                    Chars("value"), StrVal(Strip(kept[k].value)))]

parse_key_value(s) ==
    KeyValueRecords(FindPairs(s, 1, ":")) \o KeyValueRecords(FindPairs(s, 1, "="))

(***************************************************************************)
(* parse_mixed_content (lines 335-400).                                    *)
(***************************************************************************)
\* end of a match of \{[^{}]*(?:\{[^{}]*\}[^{}]*)*\} whose '{' is at p, the
\* scan being at q; 0 when there is no match
RECURSIVE ObjectEnd(_, _)
ObjectEnd(s, q) ==
    LET b == SkipUntil(s, q, {"{", "}"})
    IN  IF b > Len(s) THEN 0
        ELSE IF s[b] = "}" THEN b
        ELSE LET c == SkipUntil(s, b + 1, {"{", "}"})
             IN  IF c <= Len(s) /\ s[c] = "}" THEN ObjectEnd(s, c + 1) ELSE 0

\* lines 353-360: the matches of the pattern that json.loads accepts
RECURSIVE EmbeddedObjects(_, _)
EmbeddedObjects(s, p) ==
    LET a == IndexFrom(s, p, "{")
        e == ObjectEnd(s, a + 1)
        data == JsonLoads(SubSeq(s, a, e))
    IN  IF a > Len(s) THEN <<>>
        ELSE IF e = 0 THEN EmbeddedObjects(s, a + 1)
        ELSE (IF data.st = "ok" THEN <<data.v>> ELSE <<>>) \o EmbeddedObjects(s, e + 1)

\* lines 343-360
json_objects(s) ==
    LET data == JsonLoads(s)
    IN  IF data.st = "ok"
        THEN IF data.v.t = "arr" THEN data.v.items
             ELSE IF data.v.t = "obj" THEN <<data.v>>
             ELSE <<>>
        ELSE EmbeddedObjects(s, 1)

\* lines 362-366: {"type": "json_object", **obj} raises TypeError unless
\* obj is a mapping
JsonObjectRecords(objs) ==
    IF \E k \in 1..Len(objs) : objs[k].t # "obj"
    THEN [raised |-> TRUE, records |-> <<>>]
    ELSE [raised |-> FALSE,
          records |-> [k \in 1..Len(objs) |-> DictUpdate(TypedRecord("json_object"), objs[k])]]

\* line 369
LooksLikeHtml(s) ==
    \/ ContainsText(ToLower(s), Chars("<html"))
    \/ ContainsText(ToLower(s), Chars("<body"))
    \/ ContainsText(ToLower(s), Chars("<div"))

\* lines 374-376
LooksLikeCsv(s) ==
    /\ Contains(s, ",") /\ Contains(s, NL)
    /\ Len(SplitLines(s)) > 1 /\ Contains(SplitLines(s)[1], ",")

\* lines 383-387
KeyValueTyped(kv_pairs) ==
    [k \in 1..Len(kv_pairs) |-> DictUpdate(TypedRecord("key_value"), kv_pairs[k])]

\* a fallback that numbers the records instead of the lines
RECURSIVE TextLineRecordsCounted(_, _)
TextLineRecordsCounted(lines, n) ==
    IF lines = <<>> THEN <<>>
    ELSE IF Strip(Head(lines)) # <<>>
    THEN <<DictPut(DictPut(TypedRecord("text_line"), Chars("line_number"), IntVal(n + 1)),
                   Chars("content"), StrVal(Strip(Head(lines))))>>
         \o TextLineRecordsCounted(Tail(lines), n + 1)
    ELSE TextLineRecordsCounted(Tail(lines), n)

\* lines 391-398: i is the 0-based index of enumerate
RECURSIVE TextLineRecords(_, _)
TextLineRecords(lines, i) ==
    IF i >= Len(lines) THEN <<>>
    ELSE (IF Strip(lines[i + 1]) # <<>>
          THEN <<DictPut(DictPut(TypedRecord("text_line"), Chars("line_number"), IntVal(i + 1)),
                         Chars("content"), StrVal(Strip(lines[i + 1])))>>
          ELSE <<>>)
         \o TextLineRecords(lines, i + 1)

(***************************************************************************)
(* parse_file_content (lines 403-437).                                     *)
(***************************************************************************)
\* line 432: the number of characters of a PDF kept in the record
PdfPrefix == 1000

FileType(name) ==
    LET filename_lower == ToLower(name)
    IN  IF EndsWith(filename_lower, Chars(".html")) \/ EndsWith(filename_lower, Chars(".htm"))
        THEN "html"
        ELSE IF \/ EndsWith(filename_lower, Chars(".md"))
                \/ EndsWith(filename_lower, Chars(".markdown"))
        THEN "markdown"
        ELSE IF EndsWith(filename_lower, Chars(".csv")) THEN "csv"
        ELSE IF EndsWith(filename_lower, Chars(".json")) THEN "json"
        ELSE IF EndsWith(filename_lower, Chars(".pdf")) THEN "pdf"
        ELSE "mixed"

PdfRecord(s) ==
    DictPut(DictPut(TypedRecord("pdf_content"), Chars("note"),
                    StrVal(Chars("PDF parsing requires additional libraries. Content treated as text."))),
            Chars("content"),
            StrVal(SubSeq(s, 1, IF Len(s) < PdfPrefix THEN Len(s) ELSE PdfPrefix)))

(***************************************************************************)
(* Files handed to parse_file_content.                                     *)
(***************************************************************************)
MaxTokens == 3

ParserTokens ==
    { <<"x">>,
      <<" ">>,
      <<"\n">>,
      <<",">>,
      <<":">>,
      <<"#">>,
      <<"<", "d", "i", "v", ">">>,
      <<"[", "1", "]">>,
      <<"{", "\"", "t", "y", "p", "e", "\"", ":", "\"", "\"", "}">> }

ParserTexts ==
    { <<"<", "h", "1", ">", "x", "<", "/", "h", "1", ">">>,
      <<"<", "p", ">", "x", "<", "/", "p", ">", "y">>,
      <<"<", "d", "i", "v", ">", "<", "p", ">", "x", "<", "/", "p", ">", "<", "/", "d", "i", "v", ">">>,
      <<"<", "t", "a", "b", "l", "e", ">", "<", "t", "r", ">", "<", "t", "h", ">", "t", "y", "p", "e", "<", "/", "t", "h", ">", "<", "/", "t", "r", ">", "<", "t", "r", ">", "<", "t", "d", ">", "x", "<", "/", "t", "d", ">", "<", "/", "t", "r", ">", "<", "/", "t", "a", "b", "l", "e", ">">>,
      <<"<", "t", "a", "b", "l", "e", ">", "<", "t", "r", ">", "<", "t", "h", ">", "a", "<", "/", "t", "h", ">", "<", "/", "t", "r", ">", "<", "t", "r", ">", "<", "t", "d", ">", "x", "<", "/", "t", "d", ">", "<", "t", "d", ">", "y", "<", "/", "t", "d", ">", "<", "/", "t", "r", ">", "<", "/", "t", "a", "b", "l", "e", ">">>,
      <<"<", "m", "e", "t", "a", " ", "n", "a", "m", "e", "=", "\"", "t", "y", "p", "e", "\"", " ", "c", "o", "n", "t", "e", "n", "t", "=", "\"", "\"", ">", "x">>,
      <<"<", "t", "i", "t", "l", "e", ">", "x", "<", "/", "t", "i", "t", "l", "e", ">">>,
      <<"<", "a", " ", "h", "r", "e", "f", "=", "\"", "u", "\"", ">", "x", "<", "/", "a", ">">>,
      <<"<", "i", "m", "g", " ", "s", "r", "c", "=", "\"", "u", "\"", ">">>,
      <<"<", "u", "l", ">", "<", "l", "i", ">", "x", "<", "/", "l", "i", ">", "<", "l", "i", ">", "y", "<", "/", "l", "i", ">", "<", "/", "u", "l", ">">>,
      <<"<BT>", "<BT>", "<BT>", "\n", "x", "\n", "<BT>", "<BT>", "<BT>">>,
      <<"<BT>", "<BT>", "<BT>", "p", "y", "\n", "x">>,
      <<"[", "x", "]", "(", "u", ")">>,
      <<"[", "]", "(", "u", ")">>,
      <<" ", "#", " ", "x">>,
      <<"-", " ", "x">>,
      <<"#", "#", " ", "x">>,
      <<"*", " ", "x", "\n", "y">>,
      <<"a", ",", "b", "\n", "1", ",", "2">>,
      <<"t", "y", "p", "e", ",", "b", "\n", ",", "2">>,
      <<"a", ",", "b", "\n", "1">>,
      <<"a", "\n", "1", ",", "2">>,
      <<"a", ",", "b", "\n">>,
      <<"a", ",", "a", "\n", "1", ",", "2", "\n", "\n", "3", ",", "4", "\n">>,
      <<"a", "=", "b">>,
      <<"a", ":", " ", "b", "\n", "c", "=", "d">>,
      <<"a", ":", "\n", "b">>,
      <<"{", "\"", "a", "\"", ":", "1", "}">>,
      <<"[", "{", "\"", "a", "\"", ":", "1", "}", "]">>,
      <<"x", "{", "\"", "a", "\"", ":", "1", "}">>,
      <<"[", "]">>,
      <<"{", "\"", "a", "\"", ":", "{", "\"", "b", "\"", ":", "1", "}", "}">>,
      <<"\"", "x", "\"">>,
      <<"{", "\"", "t", "y", "p", "e", "\"", ":", "\"", "x", "\"", ",", "\"", "a", "\"", ":", "1", "}">>,
      <<"[", "{", "\"", "a", "\"", ":", "1", "}", ",", "\"", "x", "\"", "]">>,
      <<"x", "{", "\"", "a", "\"", ":", "{", "\"", "b", "\"", ":", "1", "}", "}", "y">>,
      <<"x", "\n", "\n", "y">>,
      <<" ", "x", " ", "\n">>,
      <<"x", " ", "y">>,
      <<"<BT>", "<BT>", "<BT>", "p", "y", "\n", "#", " ", "c", "\n", "x", "\n", "<BT>", "<BT>", "<BT>">>,
      <<"<BT>", "<BT>", "<BT>", "\n", "-", " ", "a", "\n", "*", " ", "b", "\n", "\n", "<BT>", "<BT>", "<BT>">>,
      <<"<BT>", "<BT>", "<BT>", "a", "\n", "x", "\n", "<BT>", "<BT>", "<BT>", "\n", "<BT>", "<BT>", "<BT>", "\n", "y", "\n", "<BT>", "<BT>", "<BT>", "\n", "z">>,
      <<" ", "<BT>", "<BT>", "<BT>", " ", "b", " ", "\n", " ", "x", " ", "\n", " ", "<BT>", "<BT>", "<BT>">>,
      <<"<", "t", "a", "b", "l", "e", ">", "<", "t", "r", ">", "<", "t", "h", ">", "a", "<", "/", "t", "h", ">", "<", "t", "h", ">", "b", "<", "/", "t", "h", ">", "<", "/", "t", "r", ">", "<", "t", "r", ">", "<", "t", "d", ">", "<", "/", "t", "d", ">", "<", "t", "d", ">", "y", "<", "/", "t", "d", ">", "<", "/", "t", "r", ">", "<", "/", "t", "a", "b", "l", "e", ">">>,
      <<"<", "t", "a", "b", "l", "e", ">", "<", "t", "r", ">", "<", "t", "d", ">", "a", "<", "/", "t", "d", ">", "<", "/", "t", "r", ">", "<", "t", "r", ">", "<", "t", "d", ">", "x", "<", "/", "t", "d", ">", "<", "t", "d", ">", "y", "<", "/", "t", "d", ">", "<", "t", "d", ">", "z", "<", "/", "t", "d", ">", "<", "/", "t", "r", ">", "<", "/", "t", "a", "b", "l", "e", ">">> }

FileNames ==
    { <<>>,
      <<"a", ".", "h", "t", "m", "l">>,
      <<"A", ".", "H", "T", "M">>,
      <<"a", ".", "m", "d">>,
      <<"a", ".", "c", "s", "v">>,
      <<"a", ".", "j", "s", "o", "n">>,
      <<"a", ".", "p", "d", "f">>,
      <<"a", ".", "t", "x", "t">> }

FileTexts == {ConcatAll(t) : t \in SeqsUpTo(ParserTokens, MaxTokens)} \cup ParserTexts

(***************************************************************************)
(* content_formatter.py: the line formatters format_markdown (lines        *)
(* 611-642), format_csv (674-705) and format_text (708-727).               *)
(***************************************************************************)
\* sep.join(parts)
RECURSIVE JoinWith(_, _)
JoinWith(parts, sep) ==
    IF parts = <<>> THEN <<>>
    ELSE IF Len(parts) = 1 THEN parts[1]
    ELSE parts[1] \o sep \o JoinWith(Tail(parts), sep)

\* formatted and formatted[-1] != ""
LastNotEmpty(formatted) == formatted # <<>> /\ formatted[Len(formatted)] # <<>>

FormatStart == [formatted |-> <<>>, prev_empty |-> FALSE]

\* a loop body that puts a blank line before every heading and fence line
MarkdownFormatLineAlwaysBlank(f, line) ==
    LET stripped == Strip(line)
    IN  IF StartsWith(stripped, <<"#">>) \/ StartsWith(stripped, Chars("fence")) THEN
            [formatted |-> f.formatted \o <<<<>>, RStrip(line)>>, prev_empty |-> TRUE]
        ELSE IF stripped # <<>> THEN
            [formatted |-> Append(f.formatted, RStrip(line)), prev_empty |-> FALSE]
        ELSE
            [formatted |-> IF ~f.prev_empty \/ LastNotEmpty(f.formatted)
                           THEN Append(f.formatted, <<>>) ELSE f.formatted,
             prev_empty |-> TRUE]

\* lines 617-640: one iteration of the loop of format_markdown
MarkdownFormatLine(f, line) ==
    LET stripped == Strip(line)
    IN  IF StartsWith(stripped, <<"#">>) THEN
            [formatted |-> (IF f.formatted # <<>> /\ ~f.prev_empty
                            THEN Append(f.formatted, <<>>) ELSE f.formatted)
                           \o <<RStrip(line)>>,
             prev_empty |-> TRUE]
        ELSE IF StartsWith(stripped, Chars("fence")) THEN
            [formatted |-> (IF ~f.prev_empty THEN Append(f.formatted, <<>>) ELSE f.formatted)
                           \o <<RStrip(line)>>,
             prev_empty |-> TRUE]
        ELSE IF stripped # <<>> THEN
            [formatted |-> Append(f.formatted, RStrip(line)), prev_empty |-> FALSE]
        ELSE
            [formatted |-> IF ~f.prev_empty \/ LastNotEmpty(f.formatted)
                           THEN Append(f.formatted, <<>>) ELSE f.formatted,
             prev_empty |-> TRUE]

RECURSIVE MarkdownFormatLines(_, _)
MarkdownFormatLines(f, lines) ==
    IF lines = <<>> THEN f
    ELSE MarkdownFormatLines(MarkdownFormatLine(f, Head(lines)), Tail(lines))

format_markdown(s) == JoinLines(MarkdownFormatLines(FormatStart, SplitLines(s)).formatted)

\* a loop body that keeps every blank line
TextFormatLineUncapped(f, line) ==
    IF Strip(line) # <<>> THEN
        [formatted |-> Append(f.formatted, RStrip(line)), prev_empty |-> FALSE]
    ELSE
        [formatted |-> Append(f.formatted, <<>>), prev_empty |-> TRUE]

\* lines 714-725: one iteration of the loop of format_text
TextFormatLine(f, line) ==
    IF Strip(line) # <<>> THEN
        [formatted |-> Append(f.formatted, RStrip(line)), prev_empty |-> FALSE]
    ELSE
        [formatted |-> IF ~f.prev_empty \/ LastNotEmpty(f.formatted)
                       THEN Append(f.formatted, <<>>) ELSE f.formatted,
         prev_empty |-> TRUE]

RECURSIVE TextFormatLines(_, _)
TextFormatLines(f, lines) ==
    IF lines = <<>> THEN f
    ELSE TextFormatLines(TextFormatLine(f, Head(lines)), Tail(lines))

format_text(s) == JoinLines(TextFormatLines(FormatStart, SplitLines(s)).formatted)

\* lines 685-700: the fields of one line, split at the commas outside quotes
RECURSIVE CsvParts(_, _, _, _, _)
CsvParts(line, k, current, in_quotes, parts) ==
    IF k > Len(line)
    THEN IF current # <<>> THEN Append(parts, Strip(current)) ELSE parts
    ELSE IF line[k] = QT
    THEN CsvParts(line, k + 1, Append(current, line[k]), ~in_quotes, parts)
    ELSE IF line[k] = "," /\ ~in_quotes
    THEN CsvParts(line, k + 1, <<>>, in_quotes, Append(parts, Strip(current)))
    ELSE CsvParts(line, k + 1, Append(current, line[k]), in_quotes, parts)

\* lines 679-703: one line of format_csv
CsvFormatLine(line) ==
    IF Strip(line) = <<>> THEN <<>>
    ELSE JoinWith(CsvParts(line, 1, <<>>, FALSE, <<>>), <<",", SP>>)

format_csv(s) ==
    JoinLines([k \in 1..Len(SplitLines(s)) |-> CsvFormatLine(SplitLines(s)[k])])

(***************************************************************************)
(* HTMLFormatter (lines 12-82): the tag walker format_html falls back to   *)
(* when BeautifulSoup is not installed or fails.                           *)
(***************************************************************************)
HTMLFormatter ==
    [output |-> <<>>, indent_level |-> 0, in_script |-> FALSE, in_style |-> FALSE]

\* line 19: indent_size
IndentSize == 2

\* line 27
self_closing ==
    {Chars("br"), Chars("hr"), Chars("img"), Chars("input"), Chars("meta"), Chars("link"),
     Chars("area"), Chars("base"), Chars("col"), Chars("embed"), Chars("source"),
     Chars("track"), Chars("wbr")}

\* line 57: the tags whose end tag is dropped
NoEndTag ==
    {Chars("br"), Chars("hr"), Chars("img"), Chars("input"), Chars("meta"), Chars("link")}

\* lines 34-43: attr_str
RECURSIVE attr_str(_, _)
attr_str(attrs, k) ==
    IF k > Len(attrs.keys) THEN <<>>
    ELSE <<SP>> \o attrs.keys[k]
         \o (IF Truthy(attrs.items[k]) THEN <<"=", QT>> \o attrs.items[k].s \o <<QT>> ELSE <<>>)
         \o attr_str(attrs, k + 1)

\* lines 23-50
HTMLFormatter_handle_starttag(f, tag, attrs) ==
    LET indent == Repeat(SP, f.indent_level * IndentSize)
        flags == IF tag \in {Chars("script"), Chars("style")}
                 THEN [f EXCEPT !.in_script = (tag = Chars("script")),
                                !.in_style = (tag = Chars("style"))]
                 ELSE f
    IN  IF tag \in self_closing
        THEN [flags EXCEPT !.output =
                 Append(@, indent \o <<"<">> \o tag \o attr_str(attrs, 1) \o <<SP, "/", ">">>)]
        ELSE [flags EXCEPT !.output =
                 Append(@, indent \o <<"<">> \o tag \o attr_str(attrs, 1) \o <<">">>),
                           !.indent_level =
                 IF tag \notin {Chars("script"), Chars("style"), Chars("textarea")}
                 THEN @ + 1 ELSE @]

\* lines 52-60
HTMLFormatter_handle_endtag(f, tag) ==
    LET flags == IF tag \in {Chars("script"), Chars("style")}
                 THEN [f EXCEPT !.in_script = FALSE, !.in_style = FALSE]
                 ELSE f
        level == IF f.indent_level > 0 THEN f.indent_level - 1 ELSE 0
    IN  IF tag \notin NoEndTag
        THEN [flags EXCEPT !.indent_level = level,
                           !.output = Append(@, Repeat(SP, level * IndentSize)
                                                \o <<"<", "/">> \o tag \o <<">">>)]
        ELSE flags

\* lines 70-79: the non-blank lines of the data, indented
RECURSIVE DataLines(_, _, _)
DataLines(lines, indent, raw) ==
    IF lines = <<>> THEN <<>>
    ELSE (IF Strip(Head(lines)) # <<>>
          THEN <<indent \o (IF raw THEN Head(lines) ELSE Strip(Head(lines)))>>
          ELSE <<>>)
         \o DataLines(Tail(lines), indent, raw)

\* lines 62-79
HTMLFormatter_handle_data(f, data) ==
    IF Strip(data) = <<>> THEN f
    ELSE [f EXCEPT !.output = @ \o DataLines(SplitLines(data),
                                             Repeat(SP, f.indent_level * IndentSize),
                                             f.in_script \/ f.in_style)]

\* formatter.feed(content): the handlers applied to the events in order
RECURSIVE HTMLFormatter_feed(_, _)
HTMLFormatter_feed(f, events) ==
    IF events = <<>> THEN f
    ELSE LET ev == Head(events)
         IN  CASE ev.e = "start" ->
                    HTMLFormatter_feed(HTMLFormatter_handle_starttag(f, ev.tag, ev.attrs),
                                       Tail(events))
               [] ev.e = "startend" ->
                    HTMLFormatter_feed(
                        HTMLFormatter_handle_endtag(
                            HTMLFormatter_handle_starttag(f, ev.tag, ev.attrs), ev.tag),
                        Tail(events))
               [] ev.e = "end" ->
                    HTMLFormatter_feed(HTMLFormatter_handle_endtag(f, ev.tag), Tail(events))
               [] ev.e = "pi" -> HTMLFormatter_feed(f, Tail(events))
               [] ev.e = "raise" -> f
               [] OTHER ->
                    HTMLFormatter_feed(HTMLFormatter_handle_data(f, ev.data), Tail(events))

\* the text makes HTMLParser.feed raise (an AssertionError)
FeedRaises(s) ==
    LET events == HtmlEvents(s, 1, <<>>)
    IN  events # <<>> /\ events[Len(events)].e = "raise"

\* lines 81-82 after lines 196-197
get_formatted(s) == JoinLines(HTMLFormatter_feed(HTMLFormatter, HtmlEvents(s, 1, <<>>)).output)

(***************************************************************************)
(* format_html, lines 199-226: the line-based formatter of the outer       *)
(* except branch.                                                          *)
(***************************************************************************)
LineFallbackStart == [formatted |-> <<>>, indent |-> 0]

\* line 219: the line starts with one of these tags
StartsVoidTag(stripped) ==
    \E tag \in NoEndTag : StartsWith(stripped, <<"<">> \o tag)

\* lines 207-224: one iteration of the loop
LineFallbackLine(f, line) ==
    LET stripped == Strip(line)
    IN  IF stripped = <<>> THEN [f EXCEPT !.formatted = Append(@, <<>>)]
        ELSE IF StartsWith(stripped, <<"<", "/">>)
        THEN [f EXCEPT !.indent = IF @ > 0 THEN @ - 1 ELSE 0]
        ELSE IF StartsWith(stripped, <<"<">>) /\ ~EndsWith(stripped, <<"/", ">">>)
        THEN [f EXCEPT !.formatted = Append(@, Repeat(SP, f.indent * 2) \o stripped),
                       !.indent = IF StartsVoidTag(stripped) THEN @ ELSE @ + 1]
        ELSE [f EXCEPT !.formatted = Append(@, Repeat(SP, f.indent * 2) \o stripped)]

RECURSIVE LineFallbackLines(_, _)
LineFallbackLines(f, lines) ==
    IF lines = <<>> THEN f
    ELSE LineFallbackLines(LineFallbackLine(f, Head(lines)), Tail(lines))

LineFallback(s) == JoinLines(LineFallbackLines(LineFallbackStart, SplitLines(s)).formatted)

\* format_html when BeautifulSoup is not installed (lines 185-226)
format_html_basic(s) == IF FeedRaises(s) THEN LineFallback(s) ELSE get_formatted(s)

(***************************************************************************)
(* format_xml (lines 645-671).  xml.dom.minidom.parseString accepts a      *)
(* well-formed document and toprettyxml writes it back; every failure      *)
(* reaches the line indenter of the bare except.  Documents are built of   *)
(* elements with quoted attributes, text without references, comments and  *)
(* the declaration <?xml version="1.0"?>; other processing instructions,   *)
(* DOCTYPE and CDATA sections are not part of the texts formatted here.    *)
(***************************************************************************)
XmlSpace == {SP, NL, "\t", "\r"}
XmlDeclaration ==
    <<"<", "?", "x", "m", "l", SP, "v", "e", "r", "s", "i", "o", "n", "=",
      QT, "1", ".", "0", QT, "?", ">">>

XmlNode(kind, name, attrs, data, children) ==
    [kind |-> kind, name |-> name, attrs |-> attrs, data |-> data, children |-> children]

IsNameStart(c) == IsLetter(c) \/ c = "_"
IsNameChar(c) == IsLetter(c) \/ IsDigit(c) \/ c \in {"_", "-", "."}

RECURSIVE SkipNameChars(_, _)
SkipNameChars(s, p) ==
    IF p <= Len(s) /\ IsNameChar(s[p]) THEN SkipNameChars(s, p + 1) ELSE p

RECURSIVE SkipXmlSpace(_, _)
SkipXmlSpace(s, p) ==
    IF p <= Len(s) /\ s[p] \in XmlSpace THEN SkipXmlSpace(s, p + 1) ELSE p

XmlAttrsResult(ok, attrs, n, empty) == [ok |-> ok, attrs |-> attrs, n |-> n, empty |-> empty]
XmlAttrsFail == XmlAttrsResult(FALSE, EmptyDict, 0, FALSE)

\* attribute value normalization: white space becomes a space
NormalizedValue(v) == [k \in 1..Len(v) |-> IF v[k] \in XmlSpace THEN SP ELSE v[k]]

\* the attributes of a start tag and its end; spaced: white space precedes p
RECURSIVE XmlAttrs(_, _, _, _)
XmlAttrs(s, p, attrs, spaced) ==
    IF p > Len(s) THEN XmlAttrsFail
    ELSE IF s[p] \in XmlSpace THEN XmlAttrs(s, p + 1, attrs, TRUE)
    ELSE IF s[p] = ">" THEN XmlAttrsResult(TRUE, attrs, p + 1, FALSE)
    ELSE IF s[p] = "/" THEN
        IF p + 1 <= Len(s) /\ s[p + 1] = ">"
        THEN XmlAttrsResult(TRUE, attrs, p + 2, TRUE) ELSE XmlAttrsFail
    ELSE IF ~spaced \/ ~IsNameStart(s[p]) THEN XmlAttrsFail
    ELSE LET e == SkipNameChars(s, p)
             name == SubSeq(s, p, e - 1)
             eq == SkipXmlSpace(s, e)
             q == SkipXmlSpace(s, eq + 1)
             close == IndexFrom(s, q + 1, s[q])
             value == SubSeq(s, q + 1, close - 1)
         IN  IF eq > Len(s) \/ s[eq] # "=" THEN XmlAttrsFail
             ELSE IF q > Len(s) \/ s[q] \notin {QT, "'"} THEN XmlAttrsFail
             ELSE IF close > Len(s) \/ Contains(value, "<") \/ Contains(value, "&")
                     \/ HasKey(attrs, name) THEN XmlAttrsFail
             ELSE XmlAttrs(s, close + 1,
                           DictPut(attrs, name, StrVal(NormalizedValue(value))), FALSE)

XmlResult(ok, doc) == [ok |-> ok, doc |-> doc]
XmlFail == XmlResult(FALSE, <<>>)

\* index of the first "--" at or after p, 0 when there is none
RECURSIVE DoubleDash(_, _)
DoubleDash(s, p) ==
    IF p + 1 > Len(s) THEN 0
    ELSE IF s[p] = "-" /\ s[p + 1] = "-" THEN p
    ELSE DoubleDash(s, p + 1)

HasRoot(doc) == \E k \in 1..Len(doc) : doc[k].kind = "element"

\* the open elements and the document after node was parsed
WithNode(stack, doc, node) ==
    IF stack = <<>> THEN [stack |-> stack, doc |-> Append(doc, node)]
    ELSE [stack |-> [stack EXCEPT ![Len(stack)].children = Append(@, node)], doc |-> doc]

\* expat: stack holds the open elements, doc the nodes of the document
RECURSIVE XmlParse(_, _, _, _)
XmlParse(s, p, stack, doc) ==
    IF p > Len(s)
    THEN IF stack = <<>> /\ HasRoot(doc) THEN XmlResult(TRUE, doc) ELSE XmlFail
    ELSE IF s[p] # "<" THEN
        LET j == IndexFrom(s, p, "<")
            text == SubSeq(s, p, j - 1)
            w == WithNode(stack, doc, XmlNode("text", <<>>, EmptyDict, text, <<>>))
        IN  IF Contains(text, "&") \/ ContainsText(text, <<"]", "]", ">">>) THEN XmlFail
            ELSE IF stack # <<>> THEN XmlParse(s, j, w.stack, w.doc)
            ELSE IF \A k \in 1..Len(text) : text[k] \in XmlSpace
            THEN XmlParse(s, j, stack, doc) ELSE XmlFail
    ELSE IF StartsWithAt(s, p, <<"<", "!", "-", "-">>) THEN
        LET e == DoubleDash(s, p + 4)
            w == WithNode(stack, doc,
                          XmlNode("comment", <<>>, EmptyDict, SubSeq(s, p + 4, e - 1), <<>>))
        IN  IF e = 0 \/ e + 2 > Len(s) \/ s[e + 2] # ">" THEN XmlFail
            ELSE XmlParse(s, e + 3, w.stack, w.doc)
    ELSE IF StartsWithAt(s, p, <<"<", "?">>) THEN
        IF p = 1 /\ StartsWith(s, XmlDeclaration)
        THEN XmlParse(s, Len(XmlDeclaration) + 1, stack, doc) ELSE XmlFail
    ELSE IF StartsWithAt(s, p, <<"<", "/">>) THEN
        LET e == SkipNameChars(s, p + 2)
            g == SkipXmlSpace(s, e)
            top == stack[Len(stack)]
            w == WithNode(SubSeq(stack, 1, Len(stack) - 1), doc,
                          XmlNode("element", top.name, top.attrs, <<>>, top.children))
        IN  IF stack = <<>> \/ g > Len(s) \/ s[g] # ">" THEN XmlFail
            ELSE IF SubSeq(s, p + 2, e - 1) # top.name THEN XmlFail
            ELSE XmlParse(s, g + 1, w.stack, w.doc)
    ELSE IF p + 1 <= Len(s) /\ IsNameStart(s[p + 1]) THEN
        LET e == SkipNameChars(s, p + 1)
            name == SubSeq(s, p + 1, e - 1)
            a == XmlAttrs(s, e, EmptyDict, FALSE)
            w == WithNode(stack, doc, XmlNode("element", name, a.attrs, <<>>, <<>>))
        IN  IF (stack = <<>> /\ HasRoot(doc)) \/ ~a.ok THEN XmlFail
            ELSE IF a.empty THEN XmlParse(s, a.n, w.stack, w.doc)
            ELSE XmlParse(s, a.n,
                          Append(stack, [name |-> name, attrs |-> a.attrs, children |-> <<>>]),
                          doc)
    ELSE XmlFail

\* xml.dom.minidom._write_data
RECURSIVE XmlEscape(_)
XmlEscape(data) ==
    IF data = <<>> THEN <<>>
    ELSE (CASE Head(data) = "&" -> <<"&", "a", "m", "p", ";">>
            [] Head(data) = "<" -> <<"&", "l", "t", ";">>
            [] Head(data) = QT -> <<"&", "q", "u", "o", "t", ";">>
            [] Head(data) = ">" -> <<"&", "g", "t", ";">>
            [] OTHER -> <<Head(data)>>)
         \o XmlEscape(Tail(data))

RECURSIVE XmlAttrText(_, _)
XmlAttrText(attrs, k) ==
    IF k > Len(attrs.keys) THEN <<>>
    ELSE <<SP>> \o attrs.keys[k] \o <<"=", QT>> \o XmlEscape(attrs.items[k].s) \o <<QT>>
         \o XmlAttrText(attrs, k + 1)

\* Node.writexml(writer, indent, addindent = "  ", newl = "\n")
RECURSIVE WriteXml(_, _)
WriteXml(node, indent) ==
    CASE node.kind = "text" -> indent \o XmlEscape(node.data) \o <<NL>>
      [] node.kind = "comment" ->
            indent \o <<"<", "!", "-", "-">> \o node.data \o <<"-", "-", ">", NL>>
      [] OTHER ->
            LET kids == node.children
                open == indent \o <<"<">> \o node.name \o XmlAttrText(node.attrs, 1)
                close == <<"<", "/">> \o node.name \o <<">", NL>>
            IN  IF kids = <<>> THEN open \o <<"/", ">", NL>>
                ELSE IF Len(kids) = 1 /\ kids[1].kind = "text"
                THEN open \o <<">">> \o XmlEscape(kids[1].data) \o close
                ELSE open \o <<">", NL>>
                     \o ConcatAll([k \in 1..Len(kids) |-> WriteXml(kids[k], indent \o <<SP, SP>>)])
                     \o indent \o close

\* line 650: dom.toprettyxml(indent="  ")
toprettyxml(doc) ==
    <<"<", "?", "x", "m", "l", SP, "v", "e", "r", "s", "i", "o", "n", "=",
      QT, "1", ".", "0", QT, SP, "?", ">", NL>>
    \o ConcatAll([k \in 1..Len(doc) |-> WriteXml(doc[k], <<>>)])

XmlFallbackStart == [formatted |-> <<>>, indent |-> 0]

\* lines 657-669: one iteration of the loop of the except branch
XmlFallbackLine(f, line) ==
    LET stripped == Strip(line)
    IN  IF stripped = <<>> THEN f
        ELSE IF StartsWith(stripped, <<"<", "/">>)
        THEN LET indent == IF f.indent > 0 THEN f.indent - 1 ELSE 0
             IN  [formatted |-> Append(f.formatted, Repeat(SP, indent * 2) \o stripped),
                  indent |-> indent]
        ELSE IF StartsWith(stripped, <<"<">>) /\ ~EndsWith(stripped, <<"/", ">">>)
        THEN [formatted |-> Append(f.formatted, Repeat(SP, f.indent * 2) \o stripped),
              indent |-> f.indent + 1]
        ELSE [f EXCEPT !.formatted = Append(@, Repeat(SP, f.indent * 2) \o stripped)]

RECURSIVE XmlFallbackLines(_, _)
XmlFallbackLines(f, lines) ==
    IF lines = <<>> THEN f
    ELSE XmlFallbackLines(XmlFallbackLine(f, Head(lines)), Tail(lines))

XmlFallback(s) == JoinLines(XmlFallbackLines(XmlFallbackStart, SplitLines(s)).formatted)

\* lines 647-671
format_xml(s) ==
    LET dom == XmlParse(s, 1, <<>>, <<>>)
    IN  IF dom.ok THEN toprettyxml(dom.doc) ELSE XmlFallback(s)

(***************************************************************************)
(* format_html, lines 89-184: the BeautifulSoup tree.  The objects of the  *)
(* tree are the entries of nodes and an object's identity is its index;    *)
(* node 1 is the BeautifulSoup object itself.  The html.parser tree        *)
(* builder receives the events of HtmlEvents; the texts formatted here     *)
(* have no comment, DOCTYPE or marked section other than one the parser    *)
(* rejects, and every tag of theirs is complete.                           *)
(***************************************************************************)
Node(kind, name, attrs, string, parent, contents) ==
    [kind |-> kind, name |-> name, attrs |-> attrs, string |-> string,
     parent |-> parent, contents |-> contents]

ROOT_TAG_NAME == <<"[", "d", "o", "c", "u", "m", "e", "n", "t", "]">>

NewSoup ==
    [nodes |-> <<Node("tag", ROOT_TAG_NAME, EmptyDict, <<>>, 0, <<>>)>>,
     tagStack |-> <<1>>,
     current_data |-> <<>>,
     already_closed_empty_element |-> <<>>]

\* HTMLTreeBuilder.empty_element_tags
empty_element_tags ==
    {Chars("area"), Chars("base"), Chars("br"), Chars("col"), Chars("embed"), Chars("hr"),
     Chars("img"), Chars("input"), Chars("keygen"), Chars("link"), Chars("menuitem"),
     Chars("meta"), Chars("param"), Chars("source"), Chars("track"), Chars("wbr"),
     Chars("basefont"), Chars("bgsound"), Chars("command"), Chars("frame"),
     Chars("image"), Chars("isindex"), Chars("nextid"), Chars("spacer")}

\* HTMLTreeBuilder.preserve_whitespace_tags
preserve_whitespace_tags == {Chars("pre"), Chars("textarea")}

ASCII_SPACES == {SP, NL, "\t", "\f", "\r"}

\* object_was_parsed: the new object becomes the last child of the open tag
AppendChild(soup, node) ==
    LET id == Len(soup.nodes) + 1
        parent == soup.tagStack[Len(soup.tagStack)]
    IN  [soup EXCEPT !.nodes = Append([@ EXCEPT ![parent].contents = Append(@, id)],
                                      [node EXCEPT !.parent = parent])]

\* endData: the collected data becomes one string; blank data becomes a
\* single newline or space outside pre and textarea
endData(soup, kind) ==
    LET data == soup.current_data
        blank == \A k \in 1..Len(data) : data[k] \in ASCII_SPACES
        preserved == \E k \in 1..Len(soup.tagStack) :
                        soup.nodes[soup.tagStack[k]].name \in preserve_whitespace_tags
        string == IF blank /\ ~preserved
                  THEN (IF Contains(data, NL) THEN <<NL>> ELSE <<SP>>)
                  ELSE data
    IN  IF data = <<>> THEN soup
        ELSE [AppendChild(soup, Node(kind, <<>>, EmptyDict, string, 0, <<>>))
                 EXCEPT !.current_data = <<>>]

\* position in tagStack of the innermost open tag called name, 0 for none
RECURSIVE OpenIndex(_, _, _)
OpenIndex(soup, name, k) ==
    IF k < 2 THEN 0
    ELSE IF soup.nodes[soup.tagStack[k]].name = name THEN k
    ELSE OpenIndex(soup, name, k - 1)

\* _popToTag
popToTag(soup, name) ==
    LET k == OpenIndex(soup, name, Len(soup.tagStack))
    IN  IF k = 0 THEN soup ELSE [soup EXCEPT !.tagStack = SubSeq(@, 1, k - 1)]

\* a valueless attribute gets the value ""
BsAttrs(attrs) ==
    [attrs EXCEPT !.items = [k \in 1..Len(attrs.items) |->
                                IF attrs.items[k] = NoneVal THEN StrVal(<<>>)
                                ELSE attrs.items[k]]]

\* BeautifulSoupHTMLParser.handle_starttag
Bs_handle_starttag(soup, name, attrs, handle_empty_element) ==
    LET flushed == endData(soup, "text")
        added == AppendChild(flushed, Node("tag", name, BsAttrs(attrs), <<>>, 0, <<>>))
        pushed == [added EXCEPT !.tagStack = Append(@, Len(added.nodes))]
    IN  IF name \in empty_element_tags /\ handle_empty_element
        THEN [popToTag(pushed, name) EXCEPT !.already_closed_empty_element = Append(@, name)]
        ELSE pushed

RECURSIVE RemoveFirst(_, _)
RemoveFirst(seq, x) ==
    IF seq = <<>> THEN <<>>
    ELSE IF Head(seq) = x THEN Tail(seq)
    ELSE <<Head(seq)>> \o RemoveFirst(Tail(seq), x)

\* BeautifulSoupHTMLParser.handle_endtag
Bs_handle_endtag(soup, name) ==
    IF \E k \in 1..Len(soup.already_closed_empty_element) :
           soup.already_closed_empty_element[k] = name
    THEN [soup EXCEPT !.already_closed_empty_element = RemoveFirst(@, name)]
    ELSE popToTag(endData(soup, "text"), name)

\* BeautifulSoupHTMLParser.handle_pi
Bs_handle_pi(soup, data) ==
    LET flushed == endData(soup, "text")
    IN  IF data = <<>>
        THEN AppendChild(flushed, Node("pi", <<>>, EmptyDict, <<SP>>, 0, <<>>))
        ELSE endData([flushed EXCEPT !.current_data = data], "pi")

RECURSIVE BsFeed(_, _)
BsFeed(soup, events) ==
    IF events = <<>> THEN soup
    ELSE LET ev == Head(events)
         IN  CASE ev.e = "start" ->
                    BsFeed(Bs_handle_starttag(soup, ev.tag, ev.attrs, TRUE), Tail(events))
               [] ev.e = "startend" ->
                    BsFeed(Bs_handle_endtag(
                               Bs_handle_starttag(soup, ev.tag, ev.attrs, FALSE), ev.tag),
                           Tail(events))
               [] ev.e = "end" -> BsFeed(Bs_handle_endtag(soup, ev.tag), Tail(events))
               [] ev.e = "pi" -> BsFeed(Bs_handle_pi(soup, ev.data), Tail(events))
               [] ev.e = "raise" -> soup
               [] OTHER ->
                    BsFeed([soup EXCEPT !.current_data = @ \o ev.data], Tail(events))

\* line 91: BeautifulSoup(content, 'html.parser'), the nodes of the tree
BeautifulSoup(s) == endData(BsFeed(NewSoup, HtmlEvents(s, 1, <<>>)), "text").nodes

\* the descendants of a node in document order
RECURSIVE Descendants(_, _)
Descendants(nodes, id) ==
    ConcatAll([k \in 1..Len(nodes[id].contents) |->
                  <<nodes[id].contents[k]>> \o Descendants(nodes, nodes[id].contents[k])])

\* lines 99-100
block_elements ==
    {Chars("div"), Chars("h1"), Chars("h2"), Chars("h3"), Chars("h4"), Chars("h5"),
     Chars("h6"), Chars("ul"), Chars("ol"), Chars("table"), Chars("form"),
     Chars("fieldset"), Chars("hr"), Chars("pre"), Chars("blockquote")}

IsBlock(nodes, id) == nodes[id].kind = "tag" /\ nodes[id].name \in block_elements
IsParagraph(nodes, id) == nodes[id].kind = "tag" /\ nodes[id].name = <<"p">>

\* lines 106-110: p_tag.find(block_elem) for some block element
HasBlock(nodes, id) ==
    \E k \in 1..Len(Descendants(nodes, id)) : IsBlock(nodes, Descendants(nodes, id)[k])

\* lines 103-112
find_p_tags_to_fix(nodes) ==
    SelectSeq(Descendants(nodes, 1),
              LAMBDA id : IsParagraph(nodes, id) /\ HasBlock(nodes, id))

\* get_text(strip=True) is not empty
HasText(nodes, id) ==
    \E k \in 1..Len(Descendants(nodes, id)) :
        /\ nodes[Descendants(nodes, id)[k]].kind = "text"
        /\ Strip(nodes[Descendants(nodes, id)[k]].string) # <<>>

Reverse(seq) == [k \in 1..Len(seq) |-> seq[Len(seq) + 1 - k]]

RECURSIVE IndexOf(_, _, _)
IndexOf(seq, x, k) ==
    IF k > Len(seq) THEN 0 ELSE IF seq[k] = x THEN k ELSE IndexOf(seq, x, k + 1)

\* decompose: the tag leaves its parent and its subtree is destroyed
decompose(nodes, id) ==
    LET gone == {id} \cup {Descendants(nodes, id)[k] : k \in 1..Len(Descendants(nodes, id))}
        parent == nodes[id].parent
    IN  [n \in 1..Len(nodes) |->
            IF n \in gone THEN Node("decomposed", <<>>, EmptyDict, <<>>, 0, <<>>)
            ELSE IF n = parent
            THEN [nodes[n] EXCEPT !.contents = SelectSeq(@, LAMBDA c : c # id)]
            ELSE nodes[n]]

\* lines 117-148: one iteration of the loop over p_tags_to_fix
fix_p_tag(nodes, p_tag) ==
    LET children == nodes[p_tag].contents
        block_elements_found == SelectSeq(children, LAMBDA c : IsBlock(nodes, c))
        text_parts == SelectSeq(children, LAMBDA c : ~IsBlock(nodes, c))
        kept == SelectSeq(text_parts,
                          LAMBDA c : nodes[c].kind = "tag" \/ Strip(nodes[c].string) # <<>>)
        parent == nodes[p_tag].parent
        at == IndexOf(nodes[parent].contents, p_tag, 1)
        moved == [n \in 1..Len(nodes) |->
                    IF n = p_tag THEN [nodes[n] EXCEPT !.contents = kept]
                    ELSE IF n = parent
                    THEN [nodes[n] EXCEPT !.contents =
                             SubSeq(@, 1, at) \o Reverse(block_elements_found)
                             \o SubSeq(@, at + 1, Len(@))]
                    ELSE IF \E k \in 1..Len(block_elements_found) :
                                block_elements_found[k] = n
                    THEN [nodes[n] EXCEPT !.parent = parent]
                    ELSE IF \E k \in 1..Len(children) : children[k] = n
                    THEN [nodes[n] EXCEPT !.parent =
                             IF \E j \in 1..Len(kept) : kept[j] = n THEN p_tag ELSE 0]
                    ELSE nodes[n]]
    IN  IF block_elements_found = <<>> THEN nodes
        ELSE IF HasText(moved, p_tag) THEN moved
        ELSE decompose(moved, p_tag)

\* str.split(): the words of a text
RECURSIVE SplitWords(_, _)
SplitWords(s, p) ==
    LET a == SkipSpace(s, p)
        b == SkipUntil(s, a, WhiteSpace)
    IN  IF a > Len(s) THEN <<>> ELSE <<SubSeq(s, a, b - 1)>> \o SplitWords(s, b)

\* ' '.join(text.split())
CollapseSpaces(s) == JoinWith(SplitWords(s, 1), <<SP>>)

\* lines 151-161: the strings of the tree with their white space collapsed
clean_text_nodes(nodes) ==
    LET attached == {Descendants(nodes, 1)[k] : k \in 1..Len(Descendants(nodes, 1))}
    IN  [n \in 1..Len(nodes) |->
            IF /\ n \in attached
               /\ nodes[n].kind \in {"text", "pi"}
               /\ nodes[nodes[n].parent].name \notin
                      {Chars("script"), Chars("style"), Chars("pre"), Chars("code")}
               /\ Strip(nodes[n].string) # <<>>
               /\ CollapseSpaces(nodes[n].string) # nodes[n].string
            THEN [nodes[n] EXCEPT !.kind = "text", !.string = CollapseSpaces(@)]
            ELSE nodes[n]]

\* the "minimal" formatter
RECURSIVE EntitySubstitution(_)
EntitySubstitution(s) ==
    IF s = <<>> THEN <<>>
    ELSE (CASE Head(s) = "&" -> <<"&", "a", "m", "p", ";">>
            [] Head(s) = "<" -> <<"&", "l", "t", ";">>
            [] Head(s) = ">" -> <<"&", "g", "t", ";">>
            [] OTHER -> <<Head(s)>>)
         \o EntitySubstitution(Tail(s))

RECURSIVE BsAttrText(_, _)
BsAttrText(attrs, k) ==
    IF k > Len(attrs.keys) THEN <<>>
    ELSE <<SP>> \o attrs.keys[k] \o <<"=", QT>> \o attrs.items[k].s \o <<QT>>
         \o BsAttrText(attrs, k + 1)

\* decode(pretty_print): one line for each tag and each string that is not
\* blank, indented by one space for each level
RECURSIVE Pretty(_, _, _)
Pretty(nodes, id, level) ==
    LET n == nodes[id]
        indent == Repeat(SP, level)
        open == indent \o <<"<">> \o n.name \o BsAttrText(n.attrs, 1)
    IN  CASE n.kind = "text" ->
               IF Strip(n.string) = <<>> THEN <<>>
               ELSE indent \o EntitySubstitution(Strip(n.string)) \o <<NL>>
          [] n.kind = "pi" -> indent \o Strip(<<"<", "?">> \o n.string \o <<">">>) \o <<NL>>
          [] OTHER ->
               IF n.contents = <<>> /\ n.name \in empty_element_tags
               THEN open \o <<"/", ">", NL>>
               ELSE open \o <<">", NL>>
                    \o ConcatAll([k \in 1..Len(n.contents) |->
                                     Pretty(nodes, n.contents[k], level + 1)])
                    \o indent \o <<"<", "/">> \o n.name \o <<">", NL>>

\* line 164: soup.prettify()
prettify(nodes) ==
    ConcatAll([k \in 1..Len(nodes[1].contents) |-> Pretty(nodes, nodes[1].contents[k], 0)])

\* lines 171-182: one line of the prettified text
PostProcessLine(line) ==
    LET stripped == Strip(line)
    IN  IF /\ stripped # <<>>
           /\ ~StartsWith(stripped, <<"<">>)
           /\ ~EndsWith(stripped, <<">">>)
           /\ ~Contains(stripped, "<")
        THEN Repeat(SP, Len(line) - Len(LStrip(line))) \o CollapseSpaces(stripped)
        ELSE line

\* lines 164-184
format_html_tree(nodes) ==
    LET lines == SplitLines(prettify(nodes))
    IN  JoinLines([k \in 1..Len(lines) |-> PostProcessLine(lines[k])])

(***************************************************************************)
(* format_content (lines 730-779): the formatter a call is dispatched to.  *)
(***************************************************************************)
\* lines 737-747: no filename; "none" falls through to line 749
DetectWithoutFilename(content) ==
    LET content_lower == Strip(ToLower(content))
    IN  IF StartsWith(content_lower, <<"{">>) \/ StartsWith(content_lower, <<"[">>)
        THEN "json"
        ELSE IF \/ ContainsText(content_lower, Chars("<html"))
                \/ ContainsText(content_lower, Chars("<body"))
                \/ ContainsText(content_lower, Chars("<div"))
        THEN "html"
        ELSE IF StartsWith(content_lower, Chars("<?xml")) THEN "xml"
        ELSE "none"

\* lines 752-763; "none" is the else branch of line 764
FormatterOfExtension(filename_lower) ==
    IF \/ EndsWith(filename_lower, Chars(".html"))
       \/ EndsWith(filename_lower, Chars(".htm"))
    THEN "html"
    ELSE IF EndsWith(filename_lower, Chars(".json")) THEN "json"
    ELSE IF \/ EndsWith(filename_lower, Chars(".md"))
            \/ EndsWith(filename_lower, Chars(".markdown"))
    THEN "markdown"
    ELSE IF EndsWith(filename_lower, Chars(".xml")) THEN "xml"
    ELSE IF EndsWith(filename_lower, Chars(".csv")) THEN "csv"
    ELSE IF \/ EndsWith(filename_lower, Chars(".txt"))
            \/ EndsWith(filename_lower, Chars(".text"))
    THEN "text"
    ELSE "none"

\* lines 766-779
DetectDefault(content) ==
    LET content_lower == Strip(ToLower(content))
    IN  IF StartsWith(content_lower, <<"{">>) \/ StartsWith(content_lower, <<"[">>)
        THEN "json"
        ELSE IF \/ ContainsText(content_lower, Chars("<html"))
                \/ ContainsText(content_lower, Chars("<body"))
        THEN "html"
        ELSE IF StartsWith(content_lower, Chars("<?xml")) THEN "xml"
        ELSE "text"

FormatterSniffingFirst(content, filename) ==
    IF DetectWithoutFilename(content) # "none" THEN DetectWithoutFilename(content)
    ELSE IF FormatterOfExtension(ToLower(filename)) # "none"
    THEN FormatterOfExtension(ToLower(filename))
    ELSE DetectDefault(content)

\* lines 735-779
Formatter(content, filename) ==
    IF filename = <<>> /\ DetectWithoutFilename(content) # "none"
    THEN DetectWithoutFilename(content)
    ELSE IF FormatterOfExtension(ToLower(filename)) # "none"
    THEN FormatterOfExtension(ToLower(filename))
    ELSE DetectDefault(content)

(***************************************************************************)
(* State: one call of repair_and_format_json(arg) at a time.               *)
(***************************************************************************)
VARIABLES input, ref, kind, arg, round, first,
          pc, content, result, i, in_string, escape_next, stack, last_was_value,
          out, exit,
          filename, file_content, ppc, all_results, results,
          fmt_content, fmt_filename, fpc, formatter, soup, p_tags_to_fix, formatted

callVars == <<input, ref, kind, arg, round, first>>
scanVars == <<result, i, in_string, escape_next, stack, last_was_value>>
jsonVars == <<input, ref, kind, arg, round, first,
              pc, content, result, i, in_string, escape_next, stack, last_was_value,
              out, exit>>
parseVars == <<filename, file_content, ppc, all_results, results>>
formatVars == <<fmt_content, fmt_filename, fpc, formatter, soup, p_tags_to_fix, formatted>>
vars == <<jsonVars, parseVars, formatVars>>

NoScan ==
    /\ result = <<>> /\ i = 1 /\ in_string = FALSE /\ escape_next = FALSE
    /\ stack = <<>> /\ last_was_value = FALSE

\* no call of repair_and_format_json is in progress
JsonIdle ==
    /\ input = <<>> /\ ref = <<>> /\ kind = "none" /\ arg = <<>> /\ round = 0
    /\ first = <<>> /\ pc = "idle" /\ content = <<>> /\ NoScan
    /\ out = <<>> /\ exit = "none"

\* no call of parse_file_content is in progress
ParseIdle ==
    /\ filename = <<>> /\ file_content = <<>> /\ ppc = "idle"
    /\ all_results = <<>> /\ results = <<>>

\* no call of format_content is in progress
FormatIdle ==
    /\ fmt_content = <<>> /\ fmt_filename = <<>> /\ fpc = "idle" /\ formatter = "none"
    /\ soup = <<>> /\ p_tags_to_fix = <<>> /\ formatted = <<>>

JsonInit ==
    /\ ParseIdle
    /\ FormatIdle
    /\ \E d \in JsonInputs : input = d.text /\ ref = d.ref /\ kind = d.kind
    /\ arg = input
    /\ round = 1
    /\ first = <<>>
    /\ pc = "fast"
    /\ content = <<>>
    /\ NoScan
    /\ out = <<>>
    /\ exit = "none"

\* lines 348-353: the fast path; only JSONDecodeError is caught
FastPath ==
    /\ pc = "fast"
    /\ LET data == JsonLoads(Strip(arg))
       IN  CASE data.st = "ok" ->
                  /\ out' = JsonDumps(data.v) /\ exit' = "fast" /\ pc' = "done"
                  /\ content' = content
             [] data.st = "rec" ->
                  /\ exit' = "RecursionError" /\ pc' = "raised"
                  /\ UNCHANGED <<out, content>>
             [] OTHER ->
                  /\ content' = arg /\ pc' = "lexical"
                  /\ UNCHANGED <<out, exit>>
    /\ UNCHANGED <<parseVars, formatVars, callVars, scanVars>>

\* lines 356-382
Lexical ==
    /\ pc = "lexical"
    /\ content' = LexicalFixes(content)
    /\ pc' = "scan"
    /\ UNCHANGED <<parseVars, formatVars, callVars, scanVars, out, exit>>

\* lines 384-462: one iteration of the while loop
ScanStep ==
    /\ pc = "scan"
    /\ i <= Len(content)
    /\ LET st == ScanChar(content, [result |-> result, i |-> i, in_string |-> in_string,
                                    escape_next |-> escape_next, stack |-> stack,
                                    last_was_value |-> last_was_value])
       IN  /\ result' = st.result
           /\ i' = st.i
           /\ in_string' = st.in_string
           /\ escape_next' = st.escape_next
           /\ stack' = st.stack
           /\ last_was_value' = st.last_was_value
    /\ UNCHANGED <<parseVars, formatVars, callVars, pc, content, out, exit>>

\* lines 464-469
ScanEnd ==
    /\ pc = "scan"
    /\ i > Len(content)
    /\ result' = result \o MissingClosers(stack)
    /\ stack' = <<>>
    /\ content' = result'
    /\ pc' = "heal"
    /\ UNCHANGED <<parseVars, formatVars, callVars, i, in_string, escape_next, last_was_value, out, exit>>

\* lines 471-489
Heal ==
    /\ pc = "heal"
    /\ content' = RegexHeal(content)
    /\ pc' = "lines"
    /\ UNCHANGED <<parseVars, formatVars, callVars, scanVars, out, exit>>

\* lines 491-552
HealLines ==
    /\ pc = "lines"
    /\ content' = LineHeal(content)
    /\ pc' = "cleanup"
    /\ UNCHANGED <<parseVars, formatVars, callVars, scanVars, out, exit>>

\* lines 554-563
CleanupStep ==
    /\ pc = "cleanup"
    /\ content' = Cleanup(content)
    /\ pc' = "balance"
    /\ UNCHANGED <<parseVars, formatVars, callVars, scanVars, out, exit>>

\* lines 565-574
Balance ==
    /\ pc = "balance"
    /\ content' = BalanceBrackets(content)
    /\ pc' = "parse"
    /\ UNCHANGED <<parseVars, formatVars, callVars, scanVars, out, exit>>

\* lines 576-580: the final parse; only JSONDecodeError is caught
FinalParse ==
    /\ pc = "parse"
    /\ LET data == JsonLoads(content)
       IN  CASE data.st = "ok" ->
                  /\ out' = JsonDumps(data.v) /\ exit' = "final" /\ pc' = "done"
             [] data.st = "rec" ->
                  /\ exit' = "RecursionError" /\ pc' = "raised" /\ out' = out
             [] OTHER ->
                  /\ pc' = "degraded" /\ UNCHANGED <<out, exit>>
    /\ UNCHANGED <<parseVars, formatVars, callVars, scanVars, content>>

\* lines 581-603: the bare except swallows every failure of the retry
Degraded ==
    /\ pc = "degraded"
    /\ LET data == IF StartIdx(content) > 0 THEN JsonLoads(Partial(content))
                   ELSE DecodeError(0)
       IN  IF data.st = "ok"
           THEN out' = JsonDumps(data.v) /\ exit' = "degraded"
           ELSE out' = Strip(content) /\ exit' = "raw"
    /\ pc' = "done"
    /\ UNCHANGED <<parseVars, formatVars, callVars, scanVars, content>>

\* the caller formats the returned text once more
Reapply ==
    /\ pc = "done"
    /\ round = 1
    /\ round' = 2
    /\ first' = out
    /\ arg' = out
    /\ pc' = "fast"
    /\ content' = <<>>
    /\ result' = <<>> /\ i' = 1 /\ in_string' = FALSE /\ escape_next' = FALSE
    /\ stack' = <<>> /\ last_was_value' = FALSE
    /\ out' = <<>>
    /\ exit' = "none"
    /\ UNCHANGED <<parseVars, formatVars, input, ref, kind>>

JsonNext ==
    \/ FastPath \/ Lexical \/ ScanStep \/ ScanEnd \/ Heal \/ HealLines
    \/ CleanupStep \/ Balance \/ FinalParse \/ Degraded \/ Reapply

SpecJson == JsonInit /\ [][JsonNext]_vars

(***************************************************************************)
(* State: one call of parse_file_content(file_content, filename).          *)
(***************************************************************************)
ParseInit ==
    /\ filename \in FileNames
    /\ file_content \in FileTexts
    /\ ppc = "start"
    /\ all_results = <<>>
    /\ results = <<>>
    /\ JsonIdle
    /\ FormatIdle

\* lines 410-411
ParseHtmlFile ==
    /\ ppc = "start"
    /\ FileType(filename) = "html"
    /\ results' = parse_html(file_content)
    /\ ppc' = "done"
    /\ UNCHANGED <<jsonVars, formatVars, filename, file_content, all_results>>

\* lines 412-413
ParseMarkdownFile ==
    /\ ppc = "start"
    /\ FileType(filename) = "markdown"
    /\ results' = parse_markdown(file_content)
    /\ ppc' = "done"
    /\ UNCHANGED <<jsonVars, formatVars, filename, file_content, all_results>>

\* lines 414-415
ParseCsvFile ==
    /\ ppc = "start"
    /\ FileType(filename) = "csv"
    /\ results' = parse_csv_content(file_content)
    /\ ppc' = "done"
    /\ UNCHANGED <<jsonVars, formatVars, filename, file_content, all_results>>

\* lines 416-424: a list or a dict is returned as it is; anything else, and
\* every failure of json.loads, falls through to the mixed path
ParseJsonFile ==
    /\ ppc = "start"
    /\ FileType(filename) = "json"
    /\ LET data == JsonLoads(file_content)
       IN  IF data.st = "ok" /\ data.v.t = "arr"
           THEN results' = data.v.items /\ ppc' = "done"
           ELSE IF data.st = "ok" /\ data.v.t = "obj"
           THEN results' = <<data.v>> /\ ppc' = "done"
           ELSE results' = results /\ ppc' = "mixed_json"
    /\ UNCHANGED <<jsonVars, formatVars, filename, file_content, all_results>>

\* lines 425-434
ParsePdfFile ==
    /\ ppc = "start"
    /\ FileType(filename) = "pdf"
    /\ results' = <<PdfRecord(file_content)>>
    /\ ppc' = "done"
    /\ UNCHANGED <<jsonVars, formatVars, filename, file_content, all_results>>

\* lines 436-437
ParseOtherFile ==
    /\ ppc = "start"
    /\ FileType(filename) = "mixed"
    /\ ppc' = "mixed_json"
    /\ UNCHANGED <<jsonVars, formatVars, filename, file_content, all_results, results>>

\* lines 342-366: a TypeError of the dict display escapes to the caller
MixedJson ==
    /\ ppc = "mixed_json"
    /\ LET found == JsonObjectRecords(json_objects(file_content))
       IN  IF found.raised
           THEN ppc' = "raised" /\ all_results' = all_results
           ELSE ppc' = "mixed_html" /\ all_results' = all_results \o found.records
    /\ UNCHANGED <<jsonVars, formatVars, filename, file_content, results>>

\* lines 368-371
MixedHtml ==
    /\ ppc = "mixed_html"
    /\ all_results' = all_results \o (IF LooksLikeHtml(file_content)
                                      THEN parse_html(file_content) ELSE <<>>)
    /\ ppc' = "mixed_csv"
    /\ UNCHANGED <<jsonVars, formatVars, filename, file_content, results>>

\* lines 373-379
MixedCsv ==
    /\ ppc = "mixed_csv"
    /\ all_results' = all_results \o (IF LooksLikeCsv(file_content)
                                      THEN parse_csv_content(file_content) ELSE <<>>)
    /\ ppc' = "mixed_kv"
    /\ UNCHANGED <<jsonVars, formatVars, filename, file_content, results>>

\* lines 381-387
MixedKeyValue ==
    /\ ppc = "mixed_kv"
    /\ all_results' = all_results \o KeyValueTyped(parse_key_value(file_content))
    /\ ppc' = "mixed_text"
    /\ UNCHANGED <<jsonVars, formatVars, filename, file_content, results>>

\* lines 389-400
MixedText ==
    /\ ppc = "mixed_text"
    /\ all_results' = IF all_results = <<>>
                      THEN TextLineRecords(SplitLines(file_content), 0)
                      ELSE all_results
    /\ results' = all_results'
    /\ ppc' = "done"
    /\ UNCHANGED <<jsonVars, formatVars, filename, file_content>>

ParseNext ==
    \/ ParseHtmlFile \/ ParseMarkdownFile \/ ParseCsvFile \/ ParseJsonFile
    \/ ParsePdfFile \/ ParseOtherFile
    \/ MixedJson \/ MixedHtml \/ MixedCsv \/ MixedKeyValue \/ MixedText

SpecParse == ParseInit /\ [][ParseNext]_vars

(***************************************************************************)
(* State: one call of format_content(fmt_content, fmt_filename).           *)
(***************************************************************************)
MaxFormatTokens == 2

StartTag(name) == <<"<">> \o name \o <<">">>
EndTag(name) == <<"<", "/">> \o name \o <<">">>

FormatTokens ==
    { StartTag(<<"p">>), EndTag(<<"p">>), StartTag(Chars("div")), EndTag(Chars("div")),
      StartTag(Chars("hr")), <<"<", "!", "[", "x", "]", ">">>, XmlDeclaration,
      <<"x">>, <<SP>>, <<NL>>, <<",">>, <<"#">>, <<"[">> }

\* a block inside a paragraph, directly and deeper; whole documents
HtmlTexts ==
    { StartTag(<<"p">>) \o <<"a">> \o StartTag(Chars("div")) \o <<"b">>
          \o EndTag(Chars("div")) \o EndTag(<<"p">>),
      StartTag(<<"p">>) \o StartTag(Chars("span")) \o StartTag(Chars("div")) \o <<"b">>
          \o EndTag(Chars("div")) \o EndTag(Chars("span")) \o EndTag(<<"p">>),
      StartTag(<<"p">>) \o StartTag(<<"p">>) \o StartTag(Chars("div")) \o <<"x">>
          \o EndTag(Chars("div")) \o EndTag(<<"p">>) \o EndTag(<<"p">>),
      StartTag(<<"p">>) \o StartTag(Chars("h1")) \o <<"a">> \o EndTag(Chars("h1"))
          \o <<"t">> \o StartTag(Chars("ul")) \o EndTag(Chars("ul")) \o EndTag(<<"p">>),
      StartTag(<<"p">>) \o StartTag(Chars("div")) \o EndTag(Chars("div"))
          \o StartTag(Chars("span")) \o StartTag(<<"p">>) \o StartTag(Chars("hr"))
          \o EndTag(<<"p">>) \o EndTag(Chars("span")) \o EndTag(<<"p">>),
      StartTag(Chars("div")) \o StartTag(<<"p">>) \o <<"a", SP, SP, "b">>
          \o StartTag(Chars("table")) \o EndTag(Chars("table")) \o EndTag(<<"p">>)
          \o EndTag(Chars("div")),
      StartTag(Chars("html")) \o StartTag(Chars("body")) \o StartTag(<<"p">>) \o <<"x">>
          \o EndTag(<<"p">>) \o EndTag(Chars("body")) \o EndTag(Chars("html")),
      <<"<", "D", "I", "V", ">", "x", NL, SP, "y">>,
      <<"<", "b", "r", "/", ">">> \o StartTag(Chars("br")) \o <<"<", "b", "r", "/", ">", "x">>,
      <<"<", "a", SP, "h", "r", "e", "f", "=", QT, "u", QT, ">", "x">> \o EndTag(<<"a">>)
          \o StartTag(Chars("div")),
      StartTag(Chars("div")) \o StartTag(Chars("div")) \o StartTag(Chars("textarea"))
          \o <<"x">> \o EndTag(Chars("textarea")) \o EndTag(Chars("div"))
          \o EndTag(Chars("div")),
      StartTag(Chars("div")) \o StartTag(Chars("script")) \o <<"x">>
          \o EndTag(Chars("script")) \o <<"y">> \o EndTag(Chars("div")),
      StartTag(Chars("div")) \o StartTag(<<"p">>) \o <<"<", "w", "b", "r", "/", ">">>
          \o EndTag(<<"p">>) \o EndTag(Chars("div")),
      StartTag(Chars("div")) \o StartTag(<<"p">>) \o <<"x">> \o StartTag(Chars("br"))
          \o <<NL, "y">> \o EndTag(<<"p">>) \o EndTag(Chars("div")),
      StartTag(<<"p">>) \o <<"a">> \o StartTag(Chars("div")) \o <<"b">>
          \o EndTag(Chars("div")) \o EndTag(<<"p">>) \o StartTag(Chars("span"))
          \o EndTag(Chars("span")),
      StartTag(Chars("div")) \o <<NL, "<", "!", "[", "x", "]", ">", NL>> \o StartTag(<<"p">>)
          \o <<NL, SP, "x", NL>> \o EndTag(<<"p">>) \o <<NL, NL>> \o EndTag(Chars("div")),
      <<"<", "!", "[", "x", "]", ">", NL>> \o StartTag(Chars("br"))
          \o <<NL, "<", "a", "/", ">", NL, SP, "x">> }

XmlTexts ==
    { XmlDeclaration \o StartTag(<<"a">>) \o StartTag(<<"b">>) \o <<"x">> \o EndTag(<<"b">>)
          \o EndTag(<<"a">>),
      StartTag(<<"a">>) \o <<NL>> \o StartTag(<<"b">>) \o <<"x">> \o EndTag(<<"b">>) \o <<NL>>
          \o EndTag(<<"a">>),
      StartTag(<<"a">>) \o <<NL>> \o StartTag(<<"b">>) \o <<NL, "x", NL>> \o EndTag(<<"b">>),
      <<"<", "a", SP, "b", "=", QT, "1", QT, "/", ">">>,
      StartTag(<<"a">>) \o <<"x", ">", QT>> \o EndTag(<<"a">>),
      XmlDeclaration \o <<NL>> \o StartTag(Chars("div")) \o EndTag(<<"a">>) }

LineTexts ==
    { <<"#", SP, "a", NL, NL, NL, "b", SP, NL, "#", "c">>,
      <<"a", ",", SP, "b", ",", NL, QT, "c", ",", "d", QT, ",", "e">>,
      <<"a", SP, SP, NL, SP, NL, NL, "b">>,
      <<"#", SP, "a", NL, "#", "#", SP, "b", NL, "x">>,
      Chars("fence") \o <<NL, "x", NL>> \o Chars("fence"),
      <<"x", NL>> \o Chars("fence") \o <<"p", "y", NL, NL, NL, "#", "c", NL>> \o Chars("fence")
          \o <<NL, "y">>,
      <<",", "a", ",", ",", SP, "b", SP, NL, SP, NL, QT, "c", SP, ",", QT, SP, ",", SP, "d">> }

FormatTexts ==
    {ConcatAll(t) : t \in SeqsUpTo(FormatTokens, MaxFormatTokens)}
    \cup HtmlTexts \cup XmlTexts \cup LineTexts \cup LexicalTexts
    \cup {Nested(n) : n \in 1..MaxNest}

FormatFileNames ==
    { <<>>,
      <<"a">> \o Chars(".html"), <<"A", ".", "H", "T", "M">>, <<"a">> \o Chars(".json"),
      <<"a">> \o Chars(".md"), <<"a">> \o Chars(".markdown"), <<"a">> \o Chars(".xml"),
      <<"a">> \o Chars(".csv"), <<"a">> \o Chars(".txt"), <<"a">> \o Chars(".text"),
      <<"a", ".", "b", "i", "n">>, <<"R", "E", "A", "D", "M", "E">> }

FormatInit ==
    /\ fmt_filename \in FormatFileNames
    /\ fmt_content \in FormatTexts
    /\ fpc = "start"
    /\ formatter = "none"
    /\ soup = <<>>
    /\ p_tags_to_fix = <<>>
    /\ formatted = <<>>
    /\ JsonIdle
    /\ ParseIdle

\* lines 741, 755, 770 and 606-608: format_json calls repair_and_format_json
FormatJson ==
    /\ fpc = "start"
    /\ Formatter(fmt_content, fmt_filename) = "json"
    /\ formatter' = "json"
    /\ fpc' = "json"
    /\ input' = fmt_content /\ ref' = fmt_content /\ kind' = "format"
    /\ arg' = fmt_content
    /\ round' = 1
    /\ pc' = "fast"
    /\ UNCHANGED <<parseVars, first, content, scanVars, out, exit,
                   fmt_content, fmt_filename, soup, p_tags_to_fix, formatted>>

\* the text repair_and_format_json returns is returned
FormatJsonReturn ==
    /\ fpc = "json"
    /\ pc = "done"
    /\ formatted' = out
    /\ fpc' = "done"
    /\ UNCHANGED <<jsonVars, parseVars, fmt_content, fmt_filename, formatter, soup,
                   p_tags_to_fix>>

\* an exception of repair_and_format_json passes through format_json and
\* format_content, which have no handler
FormatJsonRaise ==
    /\ fpc = "json"
    /\ pc = "raised"
    /\ fpc' = "raised"
    /\ UNCHANGED <<jsonVars, parseVars, fmt_content, fmt_filename, formatter, soup,
                   p_tags_to_fix, formatted>>

\* lines 744, 753, 773
FormatHtml ==
    /\ fpc = "start"
    /\ Formatter(fmt_content, fmt_filename) = "html"
    /\ formatter' = "html"
    /\ fpc' = "import"
    /\ UNCHANGED <<jsonVars, parseVars, fmt_content, fmt_filename, soup, p_tags_to_fix,
                   formatted>>

\* lines 90, 185-188: BeautifulSoup is not installed
ImportFails ==
    /\ fpc = "import"
    /\ fpc' = "basic"
    /\ UNCHANGED <<jsonVars, parseVars, fmt_content, fmt_filename, formatter, soup,
                   p_tags_to_fix, formatted>>

\* lines 90-91, 189-193: the tree is built, or the parser rejects the markup
BuildTree ==
    /\ fpc = "import"
    /\ IF FeedRaises(fmt_content)
       THEN fpc' = "basic" /\ soup' = soup
       ELSE fpc' = "find" /\ soup' = BeautifulSoup(fmt_content)
    /\ UNCHANGED <<jsonVars, parseVars, fmt_content, fmt_filename, formatter,
                   p_tags_to_fix, formatted>>

\* lines 103-112
FindParagraphs ==
    /\ fpc = "find"
    /\ p_tags_to_fix' = find_p_tags_to_fix(soup)
    /\ fpc' = "fix"
    /\ UNCHANGED <<jsonVars, parseVars, fmt_content, fmt_filename, formatter, soup,
                   formatted>>

\* lines 115-148: one iteration of the loop
FixParagraph ==
    /\ fpc = "fix"
    /\ p_tags_to_fix # <<>>
    /\ soup' = fix_p_tag(soup, Head(p_tags_to_fix))
    /\ p_tags_to_fix' = Tail(p_tags_to_fix)
    /\ UNCHANGED <<jsonVars, parseVars, fmt_content, fmt_filename, fpc, formatter,
                   formatted>>

\* lines 151-161
CleanText ==
    /\ fpc = "fix"
    /\ p_tags_to_fix = <<>>
    /\ soup' = clean_text_nodes(soup)
    /\ fpc' = "prettify"
    /\ UNCHANGED <<jsonVars, parseVars, fmt_content, fmt_filename, formatter,
                   p_tags_to_fix, formatted>>

\* lines 164-184
Prettify ==
    /\ fpc = "prettify"
    /\ formatted' = format_html_tree(soup)
    /\ fpc' = "done"
    /\ UNCHANGED <<jsonVars, parseVars, fmt_content, fmt_filename, formatter, soup,
                   p_tags_to_fix>>

\* lines 196-198: an exception of feed reaches the handler of line 199
BasicFormatter ==
    /\ fpc = "basic"
    /\ IF FeedRaises(fmt_content)
       THEN fpc' = "fallback" /\ formatted' = formatted
       ELSE fpc' = "done" /\ formatted' = get_formatted(fmt_content)
    /\ UNCHANGED <<jsonVars, parseVars, fmt_content, fmt_filename, formatter, soup,
                   p_tags_to_fix>>

\* lines 199-226
LineBasedFallback ==
    /\ fpc = "fallback"
    /\ formatted' = LineFallback(fmt_content)
    /\ fpc' = "done"
    /\ UNCHANGED <<jsonVars, parseVars, fmt_content, fmt_filename, formatter, soup,
                   p_tags_to_fix>>

\* line 757
FormatMarkdown ==
    /\ fpc = "start"
    /\ Formatter(fmt_content, fmt_filename) = "markdown"
    /\ formatter' = "markdown"
    /\ formatted' = format_markdown(fmt_content)
    /\ fpc' = "done"
    /\ UNCHANGED <<jsonVars, parseVars, fmt_content, fmt_filename, soup, p_tags_to_fix>>

\* lines 747, 759, 776
FormatXml ==
    /\ fpc = "start"
    /\ Formatter(fmt_content, fmt_filename) = "xml"
    /\ formatter' = "xml"
    /\ formatted' = format_xml(fmt_content)
    /\ fpc' = "done"
    /\ UNCHANGED <<jsonVars, parseVars, fmt_content, fmt_filename, soup, p_tags_to_fix>>

\* line 761
FormatCsv ==
    /\ fpc = "start"
    /\ Formatter(fmt_content, fmt_filename) = "csv"
    /\ formatter' = "csv"
    /\ formatted' = format_csv(fmt_content)
    /\ fpc' = "done"
    /\ UNCHANGED <<jsonVars, parseVars, fmt_content, fmt_filename, soup, p_tags_to_fix>>

\* lines 763, 779
FormatText ==
    /\ fpc = "start"
    /\ Formatter(fmt_content, fmt_filename) = "text"
    /\ formatter' = "text"
    /\ formatted' = format_text(fmt_content)
    /\ fpc' = "done"
    /\ UNCHANGED <<jsonVars, parseVars, fmt_content, fmt_filename, soup, p_tags_to_fix>>

FormatNext ==
    \/ FormatJson \/ FormatJsonReturn \/ FormatJsonRaise
    \/ FastPath \/ Lexical \/ ScanStep \/ ScanEnd \/ Heal \/ HealLines
    \/ CleanupStep \/ Balance \/ FinalParse \/ Degraded
    \/ FormatHtml \/ ImportFails \/ BuildTree \/ FindParagraphs \/ FixParagraph
    \/ CleanText \/ Prettify \/ BasicFormatter \/ LineBasedFallback
    \/ FormatMarkdown \/ FormatXml \/ FormatCsv \/ FormatText

SpecFormat == FormatInit /\ [][FormatNext]_vars

(***************************************************************************)
(* Properties of repair_and_format_json.                                   *)
(***************************************************************************)
Returned == pc = "done"
Parsed == exit \in {"fast", "final", "degraded"}

\* the characters of s that lie outside JSON string literals
RECURSIVE OutsideStringsFrom(_, _, _)
OutsideStringsFrom(s, k, inside) ==
    IF k > Len(s) THEN <<>>
    ELSE IF inside THEN
        IF s[k] = BSL THEN OutsideStringsFrom(s, k + 2, TRUE)
        ELSE OutsideStringsFrom(s, k + 1, s[k] # QT)
    ELSE IF s[k] = QT THEN OutsideStringsFrom(s, k + 1, TRUE)
    ELSE <<s[k]>> \o OutsideStringsFrom(s, k + 1, FALSE)

OutsideStrings(s) == OutsideStringsFrom(s, 1, FALSE)

SameCount(s, a, b) == Count(s, a) = Count(s, b)

\* C1 (original statement): repair_and_format_json never fails: no exception
\* escapes, and the call returns the re-serialization of the parsed value when
\* the fast-path, final or degraded parse succeeds and otherwise the repaired
\* but unparsed text.  Violated: the RecursionError of json.loads escapes.
C1_NeverFails ==
    /\ pc # "raised"
    /\ Returned =>
          IF Parsed THEN JsonLoads(out).st = "ok" /\ JsonDumps(JsonLoads(out).v) = out
          ELSE exit = "raw" /\ out = Strip(content)

\* C2 (original statement): for any input the output has as many '{' as '}'
\* and as many '[' as ']'.  Violated by surplus closers and by brackets
\* inside string literals.
C2_BracketBalance ==
    Returned => SameCount(out, "{", "}") /\ SameCount(out, "[", "]")

\* C2 (amended): a returned re-serialization has balanced brackets outside
\* its string literals; returned unparsed text never has more openers than
\* closers of either kind.
C2_NoOpenerLeftUnclosed ==
    Returned =>
        IF Parsed
        THEN /\ SameCount(OutsideStrings(out), "{", "}")
             /\ SameCount(OutsideStrings(out), "[", "]")
        ELSE /\ Count(out, "{") <= Count(out, "}")
             /\ Count(out, "[") <= Count(out, "]")

\* C2 witness: unparsed text is returned after the balancing step appended a
\* closer for an opener that sits inside a string literal
C2_Witness ==
    /\ Returned /\ exit = "raw"
    /\ Count(arg, "[") > Count(arg, "]")
    /\ Count(out, "[") = Count(out, "]")
    /\ Count(out, "}") > Count(out, "{")

ValidJson(s) == JsonLoads(s).st = "ok" /\ ~Contains(s, "N")

RECURSIVE StringLiteralsFrom(_, _, _, _, _)
StringLiteralsFrom(s, k, inside, cur, acc) ==
    IF k > Len(s) THEN acc
    ELSE IF inside THEN
        IF s[k] = BSL /\ k + 1 <= Len(s)
        THEN StringLiteralsFrom(s, k + 2, TRUE, Append(cur, Unescape(s[k + 1])), acc)
        ELSE IF s[k] = QT THEN StringLiteralsFrom(s, k + 1, FALSE, <<>>, Append(acc, cur))
        ELSE StringLiteralsFrom(s, k + 1, TRUE, Append(cur, s[k]), acc)
    ELSE StringLiteralsFrom(s, k + 1, s[k] = QT, <<>>, acc)

StringLiterals(s) == StringLiteralsFrom(s, 1, FALSE, <<>>, <<>>)

\* maximal digit runs of s, in order of appearance
RECURSIVE DigitRunsFrom(_, _, _)
DigitRunsFrom(s, k, acc) ==
    IF k > Len(s) THEN acc
    ELSE IF IsDigit(s[k])
    THEN DigitRunsFrom(s, SkipDigits(s, k), Append(acc, SubSeq(s, k, SkipDigits(s, k) - 1)))
    ELSE DigitRunsFrom(s, k + 1, acc)

DigitRuns(s) == DigitRunsFrom(s, 1, <<>>)

\* the numeric tokens of s: digit runs outside string literals
NumericTokens(s) == DigitRuns(OutsideStrings(s))

\* a is a subsequence of b
RECURSIVE IsSubsequence(_, _)
IsSubsequence(a, b) ==
    IF a = <<>> THEN TRUE
    ELSE IF b = <<>> THEN FALSE
    ELSE IF Head(a) = Head(b) THEN IsSubsequence(Tail(a), Tail(b))
    ELSE IsSubsequence(a, Tail(b))

\* C4 (original statement): on the repair path no value is dropped, altered
\* or reordered: every string literal and every numeric token of the input
\* appears unchanged and in order in the output.  Violated: the degraded
\* recovery drops what precedes the first brace, and the comment, typo and
\* comma passes rewrite text inside string literals.
C4_ValueFidelity ==
    (Returned /\ round = 1 /\ exit # "fast") =>
        /\ IsSubsequence(StringLiterals(input), StringLiterals(out))
        /\ IsSubsequence(NumericTokens(input), DigitRuns(out))

\* C5 (original statement): an object whose only defect is a missing comma
\* between a completed value and the next quoted key (space or newline in
\* its place) is returned as JSON parsing to the same members in the same
\* order.  Violated for a closed array or object followed by a space.
C5_CommaHealing ==
    (Returned /\ round = 1 /\ kind = "nocomma") =>
        /\ JsonLoads(out).st = "ok"
        /\ JsonLoads(out).v = JsonLoads(ref).v

\* C6 (original statement): a valid document that lost a suffix of closers
\* is returned as valid JSON equal to the original, also when string values
\* contain bracket characters.  Violated: step 7 counts the brackets inside
\* string literals.
C6_TruncationRecovery ==
    (Returned /\ round = 1 /\ kind = "truncated") =>
        /\ JsonLoads(out).st = "ok"
        /\ JsonLoads(out).v = JsonLoads(ref).v

(***************************************************************************)
(* Properties of parse_file_content.                                       *)
(***************************************************************************)
\* C7 (original statement): for every non-empty content and every filename
\* the returned record sequence holds at least one record.  Violated: an
\* .html file without a recognised element, a .csv file with a header only,
\* a .json file holding [] and whitespace-only text all return no record.
C7_NeverEmpty ==
    (ppc = "done" /\ file_content # <<>>) => results # <<>>

\* C8 (original statement): parse_file_content never raises, whatever the
\* content and the filename.  Violated: on the mixed path a JSON array of
\* non-objects makes the dict display {"type": ..., **obj} raise TypeError.
C8_NeverRaises == ppc # "raised"

\* the record is a dict with a non-empty string under "type"
HasType(r) ==
    /\ r.t = "obj"
    /\ HasKey(r, Chars("type"))
    /\ DictGet(r, Chars("type"), NoneVal).t = "str"
    /\ DictGet(r, Chars("type"), NoneVal).s # <<>>

\* C9 (original statement): every returned record, on every dispatch path,
\* carries a type field holding a non-empty string.  Violated: CSV rows and
\* the records of a .json file carry no type, and a key, header or meta name
\* "type" of the source overwrites the discriminator.
C9_EveryRecordTyped ==
    ppc = "done" => \A k \in 1..Len(results) : HasType(results[k])

\* the 1-based positions of the non-blank lines of s
NonBlankLines(s) == {k \in 1..Len(SplitLines(s)) : Strip(SplitLines(s)[k]) # <<>>}

\* r is the text_line record of line k of s
IsTextLineOf(r, s, k) ==
    /\ r.t = "obj"
    /\ r.keys = <<Chars("type"), Chars("line_number"), Chars("content")>>
    /\ r.items = <<StrVal(Chars("text_line")), IntVal(k), StrVal(Strip(SplitLines(s)[k]))>>

Scanning == pc = "scan" /\ i <= Len(content)

\* position k of s starts an alphanumeric token
BeginsWord(s, k) == IsAlnum(s[k]) /\ (k = 1 \/ ~IsAlnum(s[k - 1]))

\* the character about to be scanned starts a token outside a string literal
BeginsToken ==
    /\ ~in_string /\ ~escape_next
    /\ content[i] \in {"{", "[", QT} \/ BeginsWord(content, i)

\* C15 (original statement): in every step of the scan, a comma is emitted
\* immediately before the character exactly when that character starts a
\* brace, bracket, alphanumeric or quote token outside a string literal, the
\* completed-value flag is set and the character emitted last is not a comma,
\* a colon or an opening bracket; in every other step only the character is
\* emitted.  Violated: the scan never emits a comma before a quote or an
\* alphanumeric token.
C15_CommaSynthesis ==
    [][Scanning =>
         IF /\ BeginsToken
            /\ last_was_value
            /\ result # <<>>
            /\ result[Len(result)] \notin {",", ":", "[", "{"}
         THEN result' = result \o <<",", content[i]>>
         ELSE result' = Append(result, content[i])]_vars

\* the openers of s[k..] that are pushed and not popped, for a scan that
\* enters at position k inside or outside a string literal with the unpopped
\* openers st: a quote toggles the literal, a closer pops its own opener only,
\* and a backslash takes the following character out of consideration inside
\* a literal and, when escapes says so, outside one as well
RECURSIVE OpenersFrom(_, _, _, _, _)
OpenersFrom(s, k, inside, st, escapes) ==
    IF k > Len(s) THEN st
    ELSE IF s[k] = BSL /\ (inside \/ escapes) THEN OpenersFrom(s, k + 2, inside, st, escapes)
    ELSE IF s[k] = QT THEN OpenersFrom(s, k + 1, ~inside, st, escapes)
    ELSE IF inside THEN OpenersFrom(s, k + 1, TRUE, st, escapes)
    ELSE IF s[k] \in {"{", "["} THEN OpenersFrom(s, k + 1, FALSE, Append(st, s[k]), escapes)
    ELSE IF s[k] = "}" /\ st # <<>> /\ st[Len(st)] = "{"
    THEN OpenersFrom(s, k + 1, FALSE, SubSeq(st, 1, Len(st) - 1), escapes)
    ELSE IF s[k] = "]" /\ st # <<>> /\ st[Len(st)] = "["
    THEN OpenersFrom(s, k + 1, FALSE, SubSeq(st, 1, Len(st) - 1), escapes)
    ELSE OpenersFrom(s, k + 1, FALSE, st, escapes)

\* the part of the text the scan has consumed
Scanned == SubSeq(content, 1, i - 1)

\* every step emits the character it reads, after at most one comma, and the
\* end of the scan appends one closer per opener left on the stack
EmitsInOrder ==
    /\ Scanning => result' \in {Append(result, content[i]), result \o <<",", content[i]>>}
    /\ (pc = "scan" /\ i > Len(content)) =>
           /\ Len(result') = Len(result) + Len(stack)
           /\ SubSeq(result', 1, Len(result)) = result
           /\ \A k \in 1..Len(stack) :
                  result'[Len(result) + k] =
                      (IF stack[Len(stack) + 1 - k] = "{" THEN "}" ELSE "]")

\* a step inside a string literal or on an escaped character leaves the stack
\* alone; a closer is emitted whether or not it pops
StackSteps ==
    Scanning =>
        /\ (in_string \/ escape_next) => stack' = stack
        /\ (~in_string /\ ~escape_next /\ content[i] \in {"}", "]"}) =>
               /\ result' = Append(result, content[i])
               /\ stack' = IF /\ stack # <<>>
                             /\ stack[Len(stack)] = (IF content[i] = "}" THEN "{" ELSE "[")
                          THEN SubSeq(stack, 1, Len(stack) - 1)
                          ELSE stack

\* C16 (original statement): during the scan the stack holds exactly the
\* openers seen outside string literals and not yet popped by their own
\* closer; a mismatched or unmatched closer leaves the stack unchanged and is
\* emitted; characters inside string literals never change the stack; every
\* input character is emitted in order, with only commas and the end-of-input
\* closers added.  Violated: an opener that follows a backslash outside a
\* string literal is not pushed.
C16_BracketStack ==
    /\ [](pc = "scan" => stack = OpenersFrom(Scanned, 1, FALSE, <<>>, FALSE))
    /\ [][StackSteps /\ EmitsInOrder]_vars

\* C16 (amended): the same, the stack holding the openers seen outside string
\* literals that are not escaped by a backslash: the scan lets a backslash
\* escape the following character outside a string literal too.
C16_BracketStackUnescaped ==
    /\ [](pc = "scan" => stack = OpenersFrom(Scanned, 1, FALSE, <<>>, TRUE))
    /\ [][StackSteps /\ EmitsInOrder]_vars

\* C16 witness: at the end of the scan of a text with an escaped opener
\* outside a string literal, a closer without its opener was emitted and the
\* one opener pushed is still on the stack
C16_Witness ==
    /\ pc = "scan" /\ i > Len(content)
    /\ stack = <<"[">>
    /\ Contains(result, "}") /\ ~Contains(content, "{")
    /\ Contains(content, BSL)
    /\ Count(content, "[") = 2

\* the position of the first brace or bracket of s, whichever comes first;
\* 0 when s has neither
FirstOpener(s) ==
    IF Find(s, "{") = 0 THEN Find(s, "[")
    ELSE IF Find(s, "[") = 0 THEN Find(s, "{")
    ELSE IF Find(s, "{") < Find(s, "[") THEN Find(s, "{") ELSE Find(s, "[")

\* s followed by the closers it lacks, the braces before the brackets
WithMissingClosers(s) ==
    LET braces == IF Count(s, "{") > Count(s, "}")
                  THEN s \o <<NL>> \o Repeat("}", Count(s, "{") - Count(s, "}")) ELSE s
    IN  IF Count(s, "[") > Count(s, "]")
        THEN braces \o <<NL>> \o Repeat("]", Count(s, "[") - Count(s, "]")) ELSE braces

\* C17 (original statement): when the final parse has failed, the text from
\* the first brace or bracket on (whichever comes first), completed with its
\* missing closers, is parsed; the call returns the re-serialization of that
\* parse when it succeeds, and the repaired text trimmed when it fails or
\* when the text has neither character.  Violated: a brace anywhere in the
\* text is preferred to an earlier bracket.
C17_DegradedRecovery ==
    [][pc = "degraded" =>
         LET start == FirstOpener(content)
             retry == JsonLoads(WithMissingClosers(SubSeq(content, start, Len(content))))
         IN  /\ pc' = "done"
             /\ out' = IF start > 0 /\ retry.st = "ok"
                       THEN JsonDumps(retry.v) ELSE Strip(content)]_vars

(***************************************************************************)
(* Properties of the CSV and Markdown extractors.                          *)
(***************************************************************************)
\* the j-th smallest element of the set S of numbers
Nth(S, j) == CHOOSE k \in S : Cardinality({m \in S : m <= k}) = j

\* the cells of one line of CSV text without quotes; a blank line has none
RECURSIVE Cells(_)
Cells(line) ==
    IF line = <<>> THEN <<>>
    ELSE IF Find(line, ",") = 0 THEN <<line>>
    ELSE IF Find(line, ",") = Len(line) THEN <<SubSeq(line, 1, Len(line) - 1), <<>>>>
    ELSE <<SubSeq(line, 1, Find(line, ",") - 1)>>
         \o Cells(SubSeq(line, Find(line, ",") + 1, Len(line)))

\* the positions of the data rows: the non-empty lines after the first
DataRows(s) == {k \in 2..Len(SplitLines(s)) : SplitLines(s)[k] # <<>>}

\* record r holds, under every header name, the text of a cell of the row
\* that stands under that name, or the empty string when the row is too short
IsCsvRecordOf(r, header, cells) ==
    /\ r.t = "obj"
    /\ \A h \in 1..Len(header) :
           /\ HasKey(r, header[h])
           /\ \E g \in 1..Len(header) :
                  /\ header[g] = header[h]
                  /\ DictGet(r, header[h], NoneVal) =
                         StrVal(IF g <= Len(cells) THEN cells[g] ELSE <<>>)

\* C18 (original statement): for a .csv file the first line is the header
\* and every following data row yields one record, in order, that holds
\* every header name; a header name for which the row has no cell holds the
\* empty string.  Violated: csv.DictReader stores None for a missing cell.
C18_CsvMissingCells ==
    (ppc = "done" /\ FileType(filename) = "csv" /\ ~Contains(file_content, QT)) =>
        /\ Len(results) = Cardinality(DataRows(file_content))
        /\ \A j \in 1..Len(results) :
               IsCsvRecordOf(results[j], Cells(SplitLines(file_content)[1]),
                             Cells(SplitLines(file_content)[Nth(DataRows(file_content), j)]))

IsOfType(r, type) == r.t = "obj" /\ DictGet(r, Chars("type"), NoneVal) = StrVal(Chars(type))

IsHeadingRecord(r) == IsOfType(r, "heading")

\* the positions of the lines whose trimmed form starts with '#'
HeadingLines(s) ==
    {k \in 1..Len(SplitLines(s)) : StartsWith(Strip(SplitLines(s)[k]), <<"#">>)}

\* the number of '#' characters s[k..] starts with
RECURSIVE LeadingHashes(_, _)
LeadingHashes(s, k) ==
    IF k <= Len(s) /\ s[k] = "#" THEN 1 + LeadingHashes(s, k + 1) ELSE 0

\* C19 (original statement): for a Markdown file the heading records are, in
\* order, those of the lines whose trimmed form starts with '#'; each has as
\* level the number of '#' the trimmed line starts with and as text the rest
\* of the line trimmed.  Violated: the level is counted on the untrimmed
\* line, so an indented heading has level 0.
C19_HeadingLevel ==
    (ppc = "done" /\ FileType(filename) = "markdown") =>
        LET headings == SelectSeq(results, IsHeadingRecord)
            lines == SplitLines(file_content)
        IN  /\ Len(headings) = Cardinality(HeadingLines(file_content))
            /\ \A j \in 1..Len(headings) :
                   LET line == Strip(lines[Nth(HeadingLines(file_content), j)])
                       level == LeadingHashes(line, 1)
                   IN  /\ DictGet(headings[j], Chars("level"), NoneVal) = IntVal(level)
                       /\ DictGet(headings[j], Chars("text"), NoneVal) =
                              StrVal(Strip(SubSeq(line, level + 1, Len(line))))

\* the record type a non-blank line outside a code block is to yield
LineType(line) ==
    IF StartsWith(Strip(line), <<"#">>) THEN "heading"
    ELSE IF StartsWith(Strip(line), <<"-">>) \/ StartsWith(Strip(line), <<"*">>)
    THEN "list_item"
    ELSE IF SearchLink(line, 1).found THEN "link"
    ELSE "paragraph"

\* C20 (original statement): for a Markdown file without fence lines, every
\* non-blank line yields exactly one record, in document order: a heading, a
\* list_item, a link when the line holds a complete [text](url), and a
\* paragraph otherwise.  Violated: a line that holds '[' and '](' but no
\* complete link yields no record.
C20_NoLineLost ==
    (ppc = "done" /\ FileType(filename) = "markdown" /\ ~Contains(file_content, "<BT>")) =>
        /\ Len(results) = Cardinality(NonBlankLines(file_content))
        /\ \A j \in 1..Len(results) :
               IsOfType(results[j],
                        LineType(SplitLines(file_content)[Nth(NonBlankLines(file_content), j)]))

(***************************************************************************)
(* Properties of format_content.                                           *)
(***************************************************************************)
Dispatched == fpc \notin {"idle", "start"}

\* C11: format_content is total: for every content and filename no exception
\* raised inside a formatter escapes to the caller.  Violated: the
\* RecursionError of json.loads leaves repair_and_format_json, format_json
\* and format_content.
C11_Total == fpc # "raised"

\* the part of a name from its last "." on, in lower case
RECURSIVE Extension(_)
Extension(name) ==
    IF name = <<>> THEN <<>>
    ELSE IF name[Len(name)] = "." THEN <<".">>
    ELSE IF Extension(SubSeq(name, 1, Len(name) - 1)) = <<>> THEN <<>>
    ELSE Extension(SubSeq(name, 1, Len(name) - 1)) \o ToLower(<<name[Len(name)]>>)

\* the extension mapping of the specification; "none" for any other name
MappedFormat(name) ==
    CASE Extension(name) \in {Chars(".html"), Chars(".htm")} -> "html"
      [] Extension(name) = Chars(".json") -> "json"
      [] Extension(name) \in {Chars(".md"), Chars(".markdown")} -> "markdown"
      [] Extension(name) = Chars(".xml") -> "xml"
      [] Extension(name) = Chars(".csv") -> "csv"
      [] Extension(name) \in {Chars(".txt"), Chars(".text")} -> "text"
      [] OTHER -> "none"

\* C12: with a filename whose extension is mapped, the formatter applied is
\* the mapped one for every content: only the HTML formatter builds a tree,
\* only the JSON formatter runs the repair engine, and the line formatters
\* return their own rewriting of the content.
C12_ExtensionWins ==
    (Dispatched /\ MappedFormat(fmt_filename) # "none") =>
        /\ formatter = MappedFormat(fmt_filename)
        /\ MappedFormat(fmt_filename) # "html" => soup = <<>> /\ fpc \in {"json", "done", "raised"}
        /\ MappedFormat(fmt_filename) # "json" => pc = "idle"
        /\ (fpc = "done" /\ MappedFormat(fmt_filename) = "csv") =>
               formatted = format_csv(fmt_content)
        /\ (fpc = "done" /\ MappedFormat(fmt_filename) = "markdown") =>
               formatted = format_markdown(fmt_content)
        /\ (fpc = "done" /\ MappedFormat(fmt_filename) = "text") =>
               formatted = format_text(fmt_content)

\* C12 witness: a .csv file whose content holds the HTML marker <div and a
\* comma was formatted by format_csv
C12_Witness ==
    /\ fpc = "done"
    /\ MappedFormat(fmt_filename) = "csv"
    /\ ContainsText(ToLower(fmt_content), Chars("<div"))
    /\ Contains(fmt_content, ",")
    /\ formatter = "csv"

\* the sniffing rules of the specification, in their order
SniffedFormat(text) ==
    LET trimmed == Strip(ToLower(text))
    IN  IF trimmed # <<>> /\ trimmed[1] \in {"{", "["} THEN "json"
        ELSE IF \E marker \in {Chars("<html"), Chars("<body"), Chars("<div")} :
                    ContainsText(ToLower(text), marker)
        THEN "html"
        ELSE IF StartsWith(trimmed, Chars("<?xml")) THEN "xml"
        ELSE "text"

\* C13: without a filename and with an unmapped extension alike, the content
\* is sniffed by the same ordered rules: JSON, HTML (<html, <body or <div),
\* XML, text.  Violated: with an unmapped extension <div is no HTML marker.
C13_SameSniffing ==
    (Dispatched /\ MappedFormat(fmt_filename) = "none") =>
        formatter = SniffedFormat(fmt_content)

\* the nodes that are in the tree
Attached(nodes) == {Descendants(nodes, 1)[k] : k \in 1..Len(Descendants(nodes, 1))}

\* the loop of the repair is over
Repaired == formatter = "html" /\ fpc \in {"fix", "prettify", "done"} /\ p_tags_to_fix = <<>>
            /\ soup # <<>>

\* C14: after the tree repair no <p> of the document has a block-level
\* descendant at any depth, and every block that was inside a <p> is still
\* in the document.  Violated: only the blocks that are children of the <p>
\* are moved, and a <p> removed for want of text takes its subtree with it.
C14_BlockInParagraphRepair ==
    Repaired =>
        /\ \A id \in Attached(soup) : IsParagraph(soup, id) => ~HasBlock(soup, id)
        /\ \A id \in Attached(BeautifulSoup(fmt_content)) :
               IsBlock(BeautifulSoup(fmt_content), id) => id \in Attached(soup)

(***************************************************************************)
(* Properties of the fenced code blocks of parse_markdown.                 *)
(***************************************************************************)
\* the positions of the fence lines: trimmed form starts with three backticks
FenceLines(s) ==
    {k \in 1..Len(SplitLines(s)) : StartsWith(Strip(SplitLines(s)[k]), Chars("fence"))}

\* line k lies strictly between the opening and the closing line of a pair
InsideFencePair(s, k) ==
    \E j \in 1..(Cardinality(FenceLines(s)) \div 2) :
        Nth(FenceLines(s), 2 * j - 1) < k /\ k < Nth(FenceLines(s), 2 * j)

\* the lines of s that lie strictly between no pair of fence lines
RECURSIVE LinesOutsideFrom(_, _)
LinesOutsideFrom(s, k) ==
    IF k > Len(SplitLines(s)) THEN <<>>
    ELSE (IF InsideFencePair(s, k) THEN <<>> ELSE <<SplitLines(s)[k]>>)
         \o LinesOutsideFrom(s, k + 1)

WithoutFencedLines(s) == JoinLines(LinesOutsideFrom(s, 1))

IsCodeBlock(r) == IsOfType(r, "code_block")

\* C21 (original statement): for a Markdown file, the j-th code_block record
\* belongs to the j-th pair of fence lines: its language is the rest of the
\* opening fence line (text when empty), its content the lines between the
\* two fence lines joined by newlines; and the lines between the fences
\* yield no other record, so every other record is the one the file yields
\* at the same place once the lines between the fences are taken out.
\* Violated: a line between the fences whose trimmed form starts with '#'
\* yields a heading record and is missing from the content.
C21_FencedCodeBlocks ==
    (ppc = "done" /\ FileType(filename) = "markdown") =>
        LET lines == SplitLines(file_content)
            fences == FenceLines(file_content)
            blocks == SelectSeq(results, IsCodeBlock)
            outside == parse_markdown(WithoutFencedLines(file_content))
        IN  /\ Len(blocks) = Cardinality(fences) \div 2
            /\ \A j \in 1..Len(blocks) :
                   LET open == Nth(fences, 2 * j - 1)
                       close == Nth(fences, 2 * j)
                       rest == Strip(SubSeq(Strip(lines[open]), 4, Len(Strip(lines[open]))))
                   IN  /\ DictGet(blocks[j], Chars("language"), NoneVal) =
                              StrVal(IF rest = <<>> THEN Chars("text") ELSE rest)
                       /\ DictGet(blocks[j], Chars("content"), NoneVal) =
                              StrVal(JoinLines(SubSeq(lines, open + 1, close - 1)))
            /\ Len(results) = Len(outside)
            /\ \A j \in 1..Len(results) :
                   IF IsCodeBlock(results[j]) THEN IsCodeBlock(outside[j])
                   ELSE results[j] = outside[j]

(***************************************************************************)
(* Properties of the table extraction of parse_html.                       *)
(***************************************************************************)
CellStart == [tables |-> <<>>, table |-> <<>>, row |-> <<>>, cell |-> <<>>, open |-> FALSE]

\* the tables of a document as its markup gives them: a table is the
\* sequence of its rows that have a cell, a row the sequence of the trimmed
\* texts of its td and th elements, the empty ones included
RECURSIVE CellTables(_, _)
CellTables(events, c) ==
    IF events = <<>> THEN c.tables
    ELSE LET ev == Head(events)
             cellTag == ev.tag \in {Chars("td"), Chars("th")}
             c1 == IF ev.e = "start" /\ ev.tag = Chars("table")
                   THEN [c EXCEPT !.table = <<>>, !.row = <<>>, !.open = FALSE]
                   ELSE IF ev.e = "start" /\ ev.tag = Chars("tr")
                   THEN [c EXCEPT !.row = <<>>, !.open = FALSE]
                   ELSE IF ev.e = "start" /\ cellTag
                   THEN [c EXCEPT !.cell = <<>>, !.open = TRUE]
                   ELSE IF ev.e = "data" /\ c.open
                   THEN [c EXCEPT !.cell = @ \o ev.data]
                   ELSE IF ev.e = "end" /\ cellTag /\ c.open
                   THEN [c EXCEPT !.row = Append(@, Strip(c.cell)), !.open = FALSE]
                   ELSE IF ev.e = "end" /\ ev.tag = Chars("tr")
                   THEN [c EXCEPT !.table = IF c.row = <<>> THEN @ ELSE Append(@, c.row),
                                  !.row = <<>>]
                   ELSE IF ev.e = "end" /\ ev.tag = Chars("table")
                   THEN [c EXCEPT !.tables = IF c.table = <<>> THEN @ ELSE Append(@, c.table),
                                  !.table = <<>>]
                   ELSE c
         IN  CellTables(Tail(events), c1)

\* the name the n-th cell of a row is stored under (cells counted from 1,
\* the added names from column_0 as the extractor numbers them)
ColumnName(headers, n) ==
    IF n <= Len(headers) THEN headers[n] ELSE Chars("column_") \o IntChars(n - 1)

\* the names that hold a cell: not the two fixed keys of a table_row record
\* and not used twice in the row
HoldsCell(headers, row, n) ==
    /\ ColumnName(headers, n) \notin {Chars("type"), Chars("table_index")}
    /\ \A j \in 1..Len(row) : j # n => ColumnName(headers, j) # ColumnName(headers, n)

\* the data rows of all tables, each with the header row of its table
DataRowsOf(tables) ==
    ConcatAll([t \in 1..Len(tables) |->
                  [r \in 1..(Len(tables[t]) - 1) |->
                      [headers |-> tables[t][1], row |-> tables[t][r + 1]]]])

\* the records made of table rows carry a table_index; a header named type
\* takes the place of their type, so the type does not tell them
IsTableRow(r) == r.t = "obj" /\ HasKey(r, Chars("table_index"))

\* C22 (original statement): for an HTML file, the table_row records are, in
\* order, the rows after the first of every table, and the record of a row
\* holds the text of its i-th cell under the i-th header name, or under
\* column_i when the header row is shorter; an empty cell keeps its column.
\* Violated: an empty cell is not stored at all, so the cells after it move
\* one column to the left.
C22_TableRows ==
    (ppc = "done" /\ FileType(filename) = "html") =>
        LET rows == DataRowsOf(CellTables(HtmlEvents(file_content, 1, <<>>), CellStart))
            records == SelectSeq(results, IsTableRow)
        IN  /\ Len(records) = Len(rows)
            /\ \A j \in 1..Len(records) : \A k \in 1..Len(rows[j].row) :
                   HoldsCell(rows[j].headers, rows[j].row, k) =>
                       DictGet(records[j], ColumnName(rows[j].headers, k), NoneVal) =
                           StrVal(rows[j].row[k])

(***************************************************************************)
(* Properties of the tag walker HTMLFormatter.                             *)
(***************************************************************************)
\* format_html returned what the tag walker wrote
WalkerDone ==
    fpc = "done" /\ formatter = "html" /\ soup = <<>> /\ ~FeedRaises(fmt_content)

\* the indent level after the first k events
WalkerDepth(events, k) == HTMLFormatter_feed(HTMLFormatter, SubSeq(events, 1, k)).indent_level

\* every element is closed by its own end tag in nesting order; the tags of
\* the self-closing set stand alone
RECURSIVE WellNested(_, _)
WellNested(events, open) ==
    IF events = <<>> THEN open = <<>>
    ELSE LET ev == Head(events)
         IN  IF ev.e = "start" /\ ev.tag \notin self_closing
             THEN WellNested(Tail(events), <<ev.tag>> \o open)
             ELSE IF ev.e = "end"
             THEN /\ open # <<>> /\ Head(open) = ev.tag
                  /\ WellNested(Tail(events), Tail(open))
             ELSE IF ev.e \in {"start", "startend"}
             THEN ev.tag \in self_closing /\ WellNested(Tail(events), open)
             ELSE ev.e = "data" /\ WellNested(Tail(events), open)

\* the number of spaces a line starts with
RECURSIVE LeadingSpaces(_, _)
LeadingSpaces(s, k) ==
    IF k <= Len(s) /\ s[k] = SP THEN 1 + LeadingSpaces(s, k + 1) ELSE 0

\* in the lines written for well-nested markup, every line of an end tag
\* starts in the column of the line of its start tag (open holds the columns
\* of the elements not yet closed)
RECURSIVE ClosedWhereOpened(_, _)
ClosedWhereOpened(lines, open) ==
    IF lines = <<>> THEN TRUE
    ELSE LET line == Head(lines)
             col == LeadingSpaces(line, 1)
             text == SubSeq(line, col + 1, Len(line))
         IN  IF StartsWith(text, <<"<", "/">>)
             THEN /\ open # <<>> /\ Head(open) = col
                  /\ ClosedWhereOpened(Tail(lines), Tail(open))
             ELSE IF StartsWith(text, <<"<">>) /\ ~EndsWith(text, <<SP, "/", ">">>)
             THEN ClosedWhereOpened(Tail(lines), <<col>> \o open)
             ELSE ClosedWhereOpened(Tail(lines), open)

\* C23 (original statement): in the tag walker the depth goes up by one on
\* every start tag outside the self-closing set, down by one (not below 0)
\* on every end tag, and is left alone by the tags of the self-closing set
\* and by text; so for well-nested markup, script, style and textarea
\* elements included, every end tag is written in the column of its start
\* tag and the depth is 0 at the end.
\* Violated: the start tags of script, style and textarea do not raise the
\* depth while their end tags lower it.
C23_IndentDepth ==
    WalkerDone =>
        LET events == HtmlEvents(fmt_content, 1, <<>>)
        IN  /\ \A k \in 1..Len(events) :
                   LET before == WalkerDepth(events, k - 1)
                       after == WalkerDepth(events, k)
                   IN  /\ after >= 0
                       /\ after = IF events[k].e \in {"start", "startend", "end"}
                                     /\ events[k].tag \in self_closing
                                  THEN before
                                  ELSE IF events[k].e = "start" THEN before + 1
                                  ELSE IF events[k].e = "end"
                                  THEN (IF before > 0 THEN before - 1 ELSE 0)
                                  ELSE before
            /\ WellNested(events, <<>>) =>
                   /\ WalkerDepth(events, Len(events)) = 0
                   /\ ClosedWhereOpened(SplitLines(formatted), <<>>)

(***************************************************************************)
(* Properties of the line formatters format_markdown, format_text and      *)
(* format_csv.                                                             *)
(***************************************************************************)
MarkdownDone == fpc = "done" /\ formatter = "markdown"

IsHeadingLine(line) == StartsWith(Strip(line), <<"#">>)
IsFenceLine(line) == StartsWith(Strip(line), Chars("fence"))

\* C24 (original statement): in the output of format_markdown every heading
\* line and every fence line that is not the first line stands right after a
\* blank line, and the output starts with a blank line only when the input
\* does.
\* Violated: a heading right after a heading or a fence line gets no blank
\* line, and a fence line that is the first line gets one before it.
C24_BlankLineBeforeBlocks ==
    MarkdownDone =>
        LET lines == SplitLines(formatted)
        IN  /\ \A k \in 2..Len(lines) :
                   (IsHeadingLine(lines[k]) \/ IsFenceLine(lines[k])) =>
                       Strip(lines[k - 1]) = <<>>
            /\ (formatted # <<>> /\ lines[1] = <<>>) =>
                   Strip(SplitLines(fmt_content)[1]) = <<>>

LineFormatDone == fpc = "done" /\ formatter \in {"text", "markdown"}

\* the lines of s that are not blank, in order
TextLines(s) == SelectSeq(SplitLines(s), LAMBDA line : Strip(line) # <<>>)

\* some two lines of s in a row are both blank
BlankPair(s) ==
    \E k \in 1..(Len(SplitLines(s)) - 1) :
        Strip(SplitLines(s)[k]) = <<>> /\ Strip(SplitLines(s)[k + 1]) = <<>>

CsvDone == fpc = "done" /\ formatter = "csv"

\* the positions of the commas of a line that stand outside double quotes:
\* those with an even number of quote characters before them
OutsideCommas(line) ==
    {k \in 1..Len(line) :
        line[k] = "," /\ Cardinality({j \in 1..(k - 1) : line[j] = QT}) % 2 = 0}

\* the fields of a line: the texts between the commas outside quotes
Fields(line) ==
    LET cut == OutsideCommas(line)
        n == Cardinality(cut)
        from(j) == IF j = 1 THEN 1 ELSE Nth(cut, j - 1) + 1
        to(j) == IF j = n + 1 THEN Len(line) ELSE Nth(cut, j) - 1
    IN  [j \in 1..(n + 1) |-> SubSeq(line, from(j), to(j))]

\* C26 (original statement): format_csv writes one line per input line; a
\* blank line becomes an empty line, and any other line becomes its fields,
\* split at the commas outside double quotes and trimmed, joined with ', ',
\* so that the line keeps its number of fields, empty ones and an empty last
\* field included.
\* Violated: an empty last field is dropped with its comma.
C26_CsvFields ==
    CsvDone =>
        LET lines == SplitLines(fmt_content)
            written == SplitLines(formatted)
        IN  /\ Len(written) = Len(lines)
            /\ \A k \in 1..Len(lines) :
                   IF Strip(lines[k]) = <<>> THEN written[k] = <<>>
                   ELSE /\ written[k] =
                               JoinWith([j \in 1..Len(Fields(lines[k])) |->
                                            Strip(Fields(lines[k])[j])], <<",", SP>>)
                        /\ Len(Fields(written[k])) = Len(Fields(lines[k]))

(***************************************************************************)
(* Order of the blocks moved out of a paragraph.                           *)
(***************************************************************************)
\* the place of an attached node among the children of its parent
Position(nodes, id) == IndexOf(nodes[nodes[id].parent].contents, id, 1)

\* a stands before b under the same parent
Before(nodes, a, b) ==
    /\ nodes[a].parent = nodes[b].parent
    /\ Position(nodes, a) < Position(nodes, b)

\* C27 (original statement): after the repair, the block-level children a
\* <p> had stand after the <p> as its siblings, in the order they had inside
\* it, and before the sibling that followed the <p>.
\* Violated: every block is inserted right after the <p>, so several blocks
\* of one <p> end up in reverse order.
C27_BlockOrder ==
    Repaired =>
        LET before == BeautifulSoup(fmt_content)
        IN  \A p \in Attached(before) :
                LET blocks == SelectSeq(before[p].contents, LAMBDA c : IsBlock(before, c))
                    siblings == before[before[p].parent].contents
                    at == IndexOf(siblings, p, 1)
                IN  (IsParagraph(before, p) /\ blocks # <<>>
                     /\ \A j \in 1..Len(blocks) : blocks[j] \in Attached(soup)) =>
                        /\ p \in Attached(soup) => Before(soup, p, blocks[1])
                        /\ \A j \in 1..(Len(blocks) - 1) :
                               Before(soup, blocks[j], blocks[j + 1])
                        /\ (at < Len(siblings) /\ siblings[at + 1] \in Attached(soup)
                            /\ soup[siblings[at + 1]].parent = soup[blocks[1]].parent) =>
                               Before(soup, blocks[Len(blocks)], siblings[at + 1])

\* C28: format_text, format_markdown and format_csv are idempotent: applied
\* to their own output they return it unchanged.
C28_Idempotent ==
    /\ (fpc = "done" /\ formatter = "text") => format_text(formatted) = formatted
    /\ MarkdownDone => format_markdown(formatted) = formatted
    /\ CsvDone => format_csv(formatted) = formatted

\* C28 witness: format_markdown returned a text that differs from its input,
\* where a heading followed a text line and now follows a blank line
C28_Witness ==
    /\ MarkdownDone
    /\ formatted # fmt_content
    /\ \E k \in 2..Len(SplitLines(fmt_content)) :
           /\ IsHeadingLine(SplitLines(fmt_content)[k])
           /\ Strip(SplitLines(fmt_content)[k - 1]) # <<>>
           /\ ~IsHeadingLine(SplitLines(fmt_content)[k - 1])
           /\ ~IsFenceLine(SplitLines(fmt_content)[k - 1])
    /\ \A k \in 2..Len(SplitLines(formatted)) :
           IsHeadingLine(SplitLines(formatted)[k]) => SplitLines(formatted)[k - 1] = <<>>

(***************************************************************************)
(* Properties of the line-based fallback of format_html.                   *)
(***************************************************************************)
\* format_html returned what the line-based fallback wrote
FallbackDone == fpc = "done" /\ formatter = "html" /\ FeedRaises(fmt_content)

\* a line of the fallback: the trimmed line at the given depth
AtDepth(line, depth) == Repeat(SP, depth * 2) \o Strip(line)

\* the lines to be written for the lines of the input from the given depth
\* on: a blank line as an empty line, a line starting with an end tag one
\* level up (not above level 0), every other line at the current depth, the
\* depth going one level down after a line that opens an element
RECURSIVE Reindented(_, _)
Reindented(lines, depth) ==
    IF lines = <<>> THEN <<>>
    ELSE LET stripped == Strip(Head(lines))
             up == IF depth > 0 THEN depth - 1 ELSE 0
         IN  IF stripped = <<>> THEN <<<<>>>> \o Reindented(Tail(lines), depth)
             ELSE IF StartsWith(stripped, <<"<", "/">>)
             THEN <<AtDepth(stripped, up)>> \o Reindented(Tail(lines), up)
             ELSE IF /\ StartsWith(stripped, <<"<">>) /\ ~EndsWith(stripped, <<"/", ">">>)
                     /\ ~StartsVoidTag(stripped)
             THEN <<AtDepth(stripped, depth)>> \o Reindented(Tail(lines), depth + 1)
             ELSE <<AtDepth(stripped, depth)>> \o Reindented(Tail(lines), depth)

\* C29 (original statement): the line-based fallback writes every input
\* line: each non-blank line once, trimmed and indented by its depth, in
\* order, a line starting with an end tag one level above the content before
\* it, and never above level 0.
\* Violated: a line that starts with an end tag is not written at all.
C29_FallbackKeepsLines ==
    FallbackDone =>
        /\ [k \in 1..Len(TextLines(formatted)) |-> Strip(TextLines(formatted)[k])] =
               [k \in 1..Len(TextLines(fmt_content)) |-> Strip(TextLines(fmt_content)[k])]
        /\ SplitLines(formatted) = Reindented(SplitLines(fmt_content), 0)

(***************************************************************************)
(* Attribution of text in HTMLDataExtractor.                               *)
(***************************************************************************)
\* the elements open after the events, innermost first: a start tag opens
\* one, an end tag closes the innermost open element of its name and those
\* inside it
RECURSIVE OpenElements(_, _)
OpenElements(events, open) ==
    IF events = <<>> THEN open
    ELSE LET ev == Head(events)
             at == IndexOf(open, ev.tag, 1)
         IN  IF ev.e = "start" THEN OpenElements(Tail(events), <<ev.tag>> \o open)
             ELSE IF ev.e = "end" /\ at > 0
             THEN OpenElements(Tail(events), SubSeq(open, at + 1, Len(open)))
             ELSE OpenElements(Tail(events), open)

\* an element with one of the names is open
InsideOneOf(open, names) == \E k \in 1..Len(open) : open[k] \in names

HeadingTags == {Chars("h1"), Chars("h2"), Chars("h3"), Chars("h4"), Chars("h5"), Chars("h6")}

\* C30 (original statement): for an HTML file, a text event adds a heading, a
\* paragraph, a table cell or a list item only when an element of that kind
\* is open at the event.
\* Violated: the extractor goes by the last start tag seen, which an end tag
\* does not reset, so the text after </p> is stored as another paragraph.
C30_TextAttribution ==
    (ppc = "done" /\ FileType(filename) = "html") =>
        LET events == HtmlEvents(file_content, 1, <<>>)
        IN  \A k \in 1..Len(events) :
                events[k].e = "data" =>
                    LET h == Feed(HTMLDataExtractor, SubSeq(events, 1, k - 1))
                        g == handle_data(h, events[k].data)
                        open == OpenElements(SubSeq(events, 1, k - 1), <<>>)
                    IN  /\ Len(g.headings) > Len(h.headings) => InsideOneOf(open, HeadingTags)
                        /\ Len(g.paragraphs) > Len(h.paragraphs) =>
                               InsideOneOf(open, {<<"p">>})
                        /\ Len(g.current_row) > Len(h.current_row) =>
                               InsideOneOf(open, {Chars("td"), Chars("th")})
                        /\ Len(g.current_list) > Len(h.current_list) =>
                               InsideOneOf(open, {Chars("li")})

Spec == SpecJson
====
